---------------------------- MODULE Spec2Model ----------------------------
(***************************************************************************)
(* A model of the response-normalization layer of the agent-orchestration  *)
(* backend: the retry controller (GeminiService.withRetry), the public     *)
(* operations that call the language model, the diagram normalization of   *)
(* generateSystemDiagram and the confidence scorer.                        *)
(*                                                                         *)
(* JavaScript values are modelled as follows.  A string that is only       *)
(* searched for a phrase (an error message) is a sequence of words.  A     *)
(* property that is absent or undefined is the value Undef, null is Null.  *)
(***************************************************************************)
EXTENDS Integers, Sequences, FiniteSets, TLC

VARIABLES
  calls,        \* the withRetry calls / public operations in flight
  parsed,       \* generateSystemDiagram: jsonResponse, the parsed model output
  inputAgents,  \* generateSystemDiagram: the agents argument
  dpc,          \* generateSystemDiagram: "parsed", "normalized", "renormalized"
  result,       \* what the normalization of parsed returned
  result2,      \* what the normalization of result's diagram returned
  components,   \* calculateConfidenceScores: the components argument
  passed,        \* calculateConfidenceScores: components as it was at the call
  sourceText,   \* calculateConfidenceScores: systemDescription, word by word
  design,       \* calculateToolSelectionConfidenceScores: the design argument
  toolSelections, \* calculateToolSelectionConfidenceScores: the selected tools
  spc,          \* scorer: "components" / "design" before, "scored" / "tsScored" after
  scored,       \* what the scorer returned
  actual,       \* calculateEntityAccuracy: the actual entities
  expected,     \* calculateEntityAccuracy: the expected entities
  epc,          \* evaluator: "entities" before, "evaluated" after
  accuracy,     \* what calculateEntityAccuracy returned
  rawText,      \* the text of the model response, token by token
  site,         \* the operation that extracts the JSON payload of rawText
  xpc,          \* extraction: "text" before, "extracted" after
  extracted,    \* what the operation's caller observes
  testCaseNames, \* runBatchTests: the names submitted
  batch,        \* runBatchTests: its locals, and the events of its pipelines
  parseCall     \* one operation that calls the model and parses its text

retryVars == <<calls>>
diagVars == <<parsed, inputAgents, dpc, result, result2>>
scoreVars == <<components, passed, sourceText, design, toolSelections, spc, scored>>
evalVars == <<actual, expected, epc, accuracy>>
extractVars == <<rawText, site, xpc, extracted>>
batchVars == <<testCaseNames, batch>>
parseVars == <<parseCall>>

\* What the actions of one component leave unchanged.
retryFrame == <<parseVars, diagVars, scoreVars, evalVars, extractVars, batchVars>>
diagFrame == <<parseVars, retryVars, scoreVars, evalVars, extractVars, batchVars>>
scoreFrame == <<parseVars, retryVars, diagVars, evalVars, extractVars, batchVars>>
evalFrame == <<parseVars, retryVars, diagVars, scoreVars, extractVars, batchVars>>
extractFrame == <<parseVars, retryVars, diagVars, scoreVars, evalVars, batchVars>>
batchFrame == <<parseVars, retryVars, diagVars, scoreVars, evalVars, extractVars>>
parseFrame == <<retryVars, diagVars, scoreVars, evalVars, extractVars, batchVars>>

(***************************************************************************)
(*                         RETRY / BACKOFF CONTROLLER                      *)
(***************************************************************************)

\* RETRY_CONFIG
maxRetries == 3
initialDelay == 1000
maxDelay == 8000

\* The number of withRetry calls in flight at the same time.
NumCallers == 2

Callers == 1..NumCallers

Min(a, b) == IF a < b THEN a ELSE b

\* String.prototype.includes on a message, word by word.
Includes(text, phrase) ==
  \E i \in 1..(Len(text) - Len(phrase) + 1) :
     SubSeq(text, i, i + Len(phrase) - 1) = phrase

RateLimit == <<"rate", "limit">>
Timeout == <<"timeout">>

\* The values an invocation of the operation can throw.  kind "Error" is an
\* Error object whose message is text; kind "object" is an object without a
\* message property; kind "string" is a thrown string (text is the string).
ErrRateLimit == [kind |-> "Error", hasMessage |-> TRUE,
                 text |-> <<"rate", "limit", "exceeded">>]
ErrTimeout == [kind |-> "Error", hasMessage |-> TRUE,
               text |-> <<"request", "timeout">>]
ErrPermission == [kind |-> "Error", hasMessage |-> TRUE,
                  text |-> <<"permission", "denied">>]
ErrLimitRate == [kind |-> "Error", hasMessage |-> TRUE,
                 text |-> <<"limit", "rate">>]
ObjNoMessage == [kind |-> "object", hasMessage |-> FALSE, text |-> <<>>]
ThrownString == [kind |-> "string", hasMessage |-> FALSE,
                 text |-> <<"timeout">>]

\* What evaluating error.message.includes(...) throws when error.message is
\* undefined.
TypeErrorIncludes == [kind |-> "TypeError", hasMessage |-> TRUE,
                      text |-> <<"Cannot", "read", "properties", "of",
                                 "undefined">>]

None == [kind |-> "none", hasMessage |-> FALSE, text |-> <<>>]

Thrown == {ErrRateLimit, ErrTimeout, ErrPermission, ErrLimitRate,
           ObjNoMessage, ThrownString}

Values == {"v1", "v2"}

\* error.message.includes('rate limit') || error.message.includes('timeout')
IsTransient(error) ==
  Includes(error.text, RateLimit) \/ Includes(error.text, Timeout)

\* The catch block of withRetry after retries++ : "throw" rethrows error,
\* "retry" sleeps and loops, "typeerror" is the TypeError raised by reading
\* .includes of an undefined message.
CatchOffByOne(retries, error) ==
  IF retries >= maxRetries THEN "throw"
  ELSE IF ~error.hasMessage THEN "typeerror"
  ELSE IF ~IsTransient(error) THEN "throw"
  ELSE "retry"

CatchRetryAll(retries, error) ==
  IF retries > maxRetries THEN "throw" ELSE "retry"

Catch(retries, error) ==
  IF retries > maxRetries THEN "throw"
  ELSE IF ~error.hasMessage THEN "typeerror"
  ELSE IF ~IsTransient(error) THEN "throw"
  ELSE "retry"

\* delay = Math.min(delay * 2, RETRY_CONFIG.maxDelay)
NextDelayLinear(delay) == Min(delay + initialDelay, maxDelay)

NextDelay(delay) == Min(delay * 2, maxDelay)

\* The public operations that call model.generateContent.
Ops == {"processInitialDescription", "processToolSelections",
        "generateDiagram", "generateInitialAnalysis", "refineAgentDesign",
        "generateSystemDiagram", "executeAgentSystem",
        "generateExecutableCode"}

\* The operations whose model call is made inside this.withRetry(...).
UsesWithRetry(op) ==
  op \in {"processInitialDescription", "generateInitialAnalysis",
          "refineAgentDesign", "generateSystemDiagram"}

\* String(error) of a thrown value that is not an Error.
StringOf(e) == IF e.kind = "string" THEN e.text ELSE <<"[object", "Object]">>

\* What the caller of an operation without withRetry receives when the model
\* call throws e: processToolSelections and generateDiagram throw a new Error
\* around the message, the ExecutionService operations rethrow e.
DirectError(op, e) ==
  LET detail == IF e.kind = "Error" THEN e.text ELSE StringOf(e)
  IN IF op = "processToolSelections"
       THEN [kind |-> "Error", hasMessage |-> TRUE,
             text |-> <<"Failed", "to", "process", "tool", "selections:">>
                      \o detail]
     ELSE IF op = "generateDiagram"
       THEN [kind |-> "Error", hasMessage |-> TRUE,
             text |-> <<"Failed", "to", "generate", "diagram:">> \o detail]
     ELSE e

IdleCall == [pc |-> "idle", op |-> "fn", retries |-> 0, delay |-> 0, invocations |-> 0,
             fails |-> <<>>, sleeps |-> <<>>, returned |-> "none",
             lastValue |-> "none", received |-> None]

\* A retry counter that the failures of the other calls in flight also move.
RetriesOfAll(cs, c) ==
  cs[c].retries + Cardinality({k \in DOMAIN cs : k # c /\ cs[k].retries > 0})

\* let retries = 0: the counter is a local of the call.
Retries(cs, c) == cs[c].retries

\* withRetry is entered: let retries = 0; let delay = initialDelay
Start(c) ==
  /\ calls[c].pc = "idle"
  /\ calls' = [calls EXCEPT ![c] =
        [IdleCall EXCEPT !.pc = "calling", !.delay = initialDelay]]
  /\ UNCHANGED retryFrame

\* await fn() returns a value: withRetry returns it.
AttemptOk(c) ==
  /\ calls[c].pc = "calling"
  /\ \E v \in Values :
       calls' = [calls EXCEPT ![c].pc = "done",
                              ![c].invocations = @ + 1,
                              ![c].lastValue = v,
                              ![c].returned = v]
  /\ UNCHANGED retryFrame

\* await fn() throws: the catch block up to the throw or the setTimeout.
AttemptFail(c) ==
  /\ calls[c].pc = "calling"
  /\ \E e \in Thrown :
       LET r == Retries(calls, c) + 1
           d == Catch(r, e)
       IN calls' = [calls EXCEPT
            ![c].invocations = @ + 1,
            ![c].fails = Append(@, e),
            ![c].retries = r,
            ![c].pc = IF d = "retry" THEN "sleeping" ELSE "failed",
            ![c].received = IF d = "throw" THEN e
                            ELSE IF d = "typeerror" THEN TypeErrorIncludes
                            ELSE @]
  /\ UNCHANGED retryFrame

\* The timer fires: the delay was slept, it doubles up to maxDelay, and the
\* loop calls fn again.
Wake(c) ==
  /\ calls[c].pc = "sleeping"
  /\ calls' = [calls EXCEPT ![c].pc = "calling",
                            ![c].sleeps = Append(@, calls[c].delay),
                            ![c].delay = NextDelay(@)]
  /\ UNCHANGED retryFrame

\* A public operation is called: it enters withRetry, or calls the model
\* directly.
OpStart(c, op) ==
  /\ calls[c].pc = "idle"
  /\ calls' = [calls EXCEPT ![c] =
        IF UsesWithRetry(op)
          THEN [IdleCall EXCEPT !.op = op, !.pc = "calling",
                                !.delay = initialDelay]
          ELSE [IdleCall EXCEPT !.op = op, !.pc = "direct"]]
  /\ UNCHANGED retryFrame

\* await this.model.generateContent(...) outside withRetry returns.
DirectOk(c) ==
  /\ calls[c].pc = "direct"
  /\ \E v \in Values :
       calls' = [calls EXCEPT ![c].pc = "done",
                              ![c].invocations = @ + 1,
                              ![c].lastValue = v,
                              ![c].returned = v]
  /\ UNCHANGED retryFrame

\* await this.model.generateContent(...) outside withRetry throws: the
\* operation's own catch block.
DirectFail(c) ==
  /\ calls[c].pc = "direct"
  /\ \E e \in Thrown :
       calls' = [calls EXCEPT ![c].pc = "failed",
                              ![c].invocations = @ + 1,
                              ![c].fails = Append(@, e),
                              ![c].received = DirectError(calls[c].op, e)]
  /\ UNCHANGED retryFrame

(***************************************************************************)
(*            STRUCTURAL NORMALIZER (generateSystemDiagram)                *)
(*                                                                         *)
(* A JavaScript primitive or array is a record tagged by t; a plain object *)
(* is a record of its own properties (it has no t).  Reading a property    *)
(* that an object does not have gives undefined.                           *)
(***************************************************************************)

U == [t |-> "undefined"]
Null == [t |-> "null"]
Str(s) == [t |-> "string", s |-> s]
Num(n) == [t |-> "number", n |-> n]
Arr(a) == [t |-> "array", a |-> a]

IsObject(v) == "t" \notin DOMAIN v
IsArray(v) == ~IsObject(v) /\ v.t = "array"
IsString(v) == ~IsObject(v) /\ v.t = "string"

\* o.k
Get(o, k) == IF k \in DOMAIN o THEN o[k] ELSE U

\* JavaScript truthiness.
Truthy(v) ==
  IF IsObject(v) THEN TRUE
  ELSE CASE v.t = "undefined" -> FALSE
         [] v.t = "null" -> FALSE
         [] v.t = "string" -> v.s # ""
         [] v.t = "number" -> v.n # 0
         [] OTHER -> TRUE

\* a || b
Or(a, b) == IF Truthy(a) THEN a ELSE b

\* String.prototype.trim on the layout strings of the model.
Trim(s) == IF s \in {" ", "  "} THEN "" ELSE s

\* The longest node, edge and group lists of a parsed model output.
MaxNodes == 2
MaxEdges == 2

SeqsUpTo(S, n) == UNION {[1..k -> S] : k \in 0..n}

\* nodeData.map((node, index) => ({...})), index counted from 0
MapNode(node, index) ==
  [id |-> Or(Get(node, "id"), Str("node" \o ToString(index))),
   label |-> Or(Or(Get(node, "label"), Get(node, "name")),
                Str("Node " \o ToString(index))),
   type |-> Or(Get(node, "type"), Str("agent")),
   role |-> Get(node, "role"),
   category |-> Get(node, "category"),
   description |-> Get(node, "description"),
   size |-> Or(Get(node, "size"), Num(1)),
   style |-> Or(Get(node, "style"),
                [shape |-> Get(node, "shape"), color |-> Get(node, "color")])]

\* agents.map(agent => ({id, label, type: 'agent', description}))
AgentNode(agent) ==
  [id |-> Get(agent, "id"),
   label |-> Get(agent, "name"),
   type |-> Str("agent"),
   description |-> Get(agent, "description")]

\* edgeData.map((edge, index) => ({...}))
MapEdgeFreshId(edge, index) ==
  [id |-> Str("edge" \o ToString(index)),
   source |-> Or(Or(Or(Get(edge, "source"), Get(edge, "from")),
                    Get(edge, "source_id")), Str("")),
   target |-> Or(Or(Or(Get(edge, "target"), Get(edge, "to")),
                    Get(edge, "target_id")), Str("")),
   label |-> Or(Get(edge, "label"), Str("")),
   type |-> Or(Get(edge, "type"), Str("sequential")),
   style |-> Or(Get(edge, "style"),
                [lineStyle |-> Get(edge, "lineStyle"),
                 thickness |-> Get(edge, "thickness"),
                 color |-> Get(edge, "color"),
                 bidirectional |-> Get(edge, "bidirectional")])]

MapEdge(edge, index) ==
  [id |-> Or(Get(edge, "id"), Str("edge" \o ToString(index))),
   source |-> Or(Or(Or(Get(edge, "source"), Get(edge, "from")),
                    Get(edge, "source_id")), Str("")),
   target |-> Or(Or(Or(Get(edge, "target"), Get(edge, "to")),
                    Get(edge, "target_id")), Str("")),
   label |-> Or(Get(edge, "label"), Str("")),
   type |-> Or(Get(edge, "type"), Str("sequential")),
   style |-> Or(Get(edge, "style"),
                [lineStyle |-> Get(edge, "lineStyle"),
                 thickness |-> Get(edge, "thickness"),
                 color |-> Get(edge, "color"),
                 bidirectional |-> Get(edge, "bidirectional")])]

\* jsonResponse.groups.map((group, index) => ({...}))
MapGroup(group, index) ==
  [id |-> Or(Get(group, "id"), Str("group" \o ToString(index))),
   label |-> Or(Or(Get(group, "label"), Get(group, "name")),
                Str("Group " \o ToString(index))),
   nodes |-> Or(Or(Get(group, "nodes"), Get(group, "nodeIds")), Arr(<<>>)),
   style |-> Or(Get(group, "style"), [color |-> Get(group, "color")])]

\* new Set(normalizedResponse.nodes.map(n => n.id))
NodeIds(nodes) == {nodes[i].id : i \in 1..Len(nodes)}

\* The filter callback: sourceExists && targetExists
EdgeKeptSourceOnly(edge, nodeIds) == edge.source \in nodeIds

EdgeKept(edge, nodeIds) == edge.source \in nodeIds /\ edge.target \in nodeIds

\* normalizedResponse.edges.filter(edge => ...)
RECURSIVE FilterEdges(_, _)
FilterEdges(edges, nodeIds) ==
  IF edges = <<>> THEN <<>>
  ELSE IF EdgeKept(Head(edges), nodeIds)
         THEN <<Head(edges)>> \o FilterEdges(Tail(edges), nodeIds)
         ELSE FilterEdges(Tail(edges), nodeIds)

\* jsonResponse.nodes || jsonResponse.vertices || jsonResponse.agents || []
NodeData(json) ==
  Or(Or(Or(Get(json, "nodes"), Get(json, "vertices")), Get(json, "agents")),
     Arr(<<>>))

\* jsonResponse.edges || jsonResponse.links || jsonResponse.relationships || []
EdgeData(json) ==
  Or(Or(Or(Get(json, "edges"), Get(json, "links")),
        Get(json, "relationships")), Arr(<<>>))

\* Array.isArray(nodeData) && nodeData.length > 0
UsesModelNodes(json) == IsArray(NodeData(json)) /\ Len(NodeData(json).a) > 0

NormalizedNodes(json, agents) ==
  IF UsesModelNodes(json)
    THEN [i \in 1..Len(NodeData(json).a) |-> MapNode(NodeData(json).a[i], i - 1)]
    ELSE [i \in 1..Len(agents) |-> AgentNode(agents[i])]

NormalizedEdges(json, nodes) ==
  IF IsArray(EdgeData(json))
    THEN LET mapped == [i \in 1..Len(EdgeData(json).a) |->
                           MapEdge(EdgeData(json).a[i], i - 1)]
         IN FilterEdges(mapped, NodeIds(nodes))
    ELSE <<>>

\* layout: jsonResponse.layout || 'dagre', then the test of lines 1604-1608
NormalizedLayout(json) ==
  LET first == Or(Get(json, "layout"), Str("dagre"))
      given == Get(json, "layout")
  IN IF IsString(given) /\ Trim(given.s) # "" THEN given
     ELSE IF ~Truthy(first) THEN Str("dagre")
     ELSE first

HasGroups(json) == Truthy(Get(json, "groups")) /\ IsArray(Get(json, "groups"))

\* node.id and edge.id throw a TypeError on a null entry of the array.
HasNullEntry(list) ==
  IsArray(list) /\ \E i \in 1..Len(list.a) : list.a[i] = Null

\* The try block after JSON.parse.  It throws a TypeError when jsonResponse
\* or an entry of its node or edge array is null, and the missing-nodes
\* Error when no node can be built.
Normalization(json, agents) ==
  IF json = Null
    THEN [threw |-> TRUE, error |-> "TypeError"]
  ELSE IF UsesModelNodes(json) /\ HasNullEntry(NodeData(json))
    THEN [threw |-> TRUE, error |-> "TypeError"]
  ELSE IF Len(NormalizedNodes(json, agents)) = 0
    THEN [threw |-> TRUE, error |-> "Missing required nodes array in diagram data"]
  ELSE IF HasNullEntry(EdgeData(json))
    THEN [threw |-> TRUE, error |-> "TypeError"]
  ELSE LET nodes == NormalizedNodes(json, agents)
           base == [nodes |-> Arr(nodes),
                    edges |-> Arr(NormalizedEdges(json, nodes)),
                    layout |-> NormalizedLayout(json)]
       IN [threw |-> FALSE,
           diagram |->
             IF HasGroups(json)
               THEN base @@ [groups |->
                      Arr([i \in 1..Len(Get(json, "groups").a) |->
                             MapGroup(Get(json, "groups").a[i], i - 1)])]
               ELSE base]

\* The catch block: the basic diagram of the input agents.
FallbackDiagram(agents) ==
  [nodes |-> Arr([i \in 1..Len(agents) |-> AgentNode(agents[i])]),
   edges |-> Arr(<<>>),
   layout |-> Str("dagre")]

\* What generateSystemDiagram does with a parsed model output: path is
\* "normal" (the try block returned) or "fallback" (the catch block returned).
Normalized(json, agents) ==
  LET n == Normalization(json, agents)
  IN IF n.threw
       THEN [status |-> "returned", path |-> "fallback", error |-> n.error,
             diagram |-> FallbackDiagram(agents)]
       ELSE [status |-> "returned", path |-> "normal", error |-> "",
             diagram |-> n.diagram]

\* Parsed model outputs ------------------------------------------------------

NodeA == [id |-> Str("n1"), name |-> Str("X")]
NodeB == [id |-> Str("n2"), label |-> Str("L"), type |-> Str("tool"),
          role |-> Str("primary"), size |-> Num(2),
          style |-> [shape |-> Str("circle")]]
NodeC == [name |-> Str("Y"), shape |-> Str("hexagon")]
NodeEntries == {NodeA, NodeB, NodeC}

EdgeA == [from |-> Str("n1"), to |-> Str("n2")]
EdgeB == [id |-> Str("e9"), source |-> Str("n1"), target |-> Str("n1"),
          label |-> Str("calls"), type |-> Str("data")]
EdgeC == [source_id |-> Str("n2"), target_id |-> Str("node1"),
          lineStyle |-> Str("dashed")]
EdgeD == [label |-> Str("dangling")]
EdgeEntries == {EdgeA, EdgeB, EdgeC, EdgeD}

AgentA == [id |-> Str("a1"), name |-> Str("A"), description |-> Str("does a")]
AgentB == [id |-> Str(""), name |-> Str("B")]
AgentLists == {<<>>, <<AgentA>>, <<AgentB, AgentA>>}

GroupA == [id |-> Str("g1"), label |-> Str("G"), nodes |-> Arr(<<Str("n1")>>)]
GroupB == [name |-> Str("H"), nodeIds |-> Arr(<<Str("n2")>>),
           color |-> Str("#fff")]

\* What a key that does not carry the data holds: absent, null, empty array.
Fillers == {U, Null, Arr(<<>>)}

NodeKeys == <<"nodes", "vertices", "agents">>
EdgeKeys == <<"edges", "links", "relationships">>

Layouts == {U, Str(""), Str("  "), Str("force"), Num(5)}
GroupValues == {U, Arr(<<>>), Arr(<<GroupA>>), Arr(<<GroupB, GroupA>>), Str("none")}

\* The object whose k-th node key holds nodeList and k-th edge key edgeList.
ParsedObject(k, nodeList, nodeFill, edgeList, edgeFill, layout, groups) ==
  [nodes |-> IF k = 1 THEN Arr(nodeList) ELSE nodeFill,
   vertices |-> IF k = 2 THEN Arr(nodeList) ELSE nodeFill,
   agents |-> IF k = 3 THEN Arr(nodeList) ELSE nodeFill,
   edges |-> IF k = 1 THEN Arr(edgeList) ELSE edgeFill,
   links |-> IF k = 2 THEN Arr(edgeList) ELSE edgeFill,
   relationships |-> IF k = 3 THEN Arr(edgeList) ELSE edgeFill,
   layout |-> layout,
   groups |-> groups]

ParsedOutputs ==
  {ParsedObject(k, nl, nf, el, ef, U, U) :
     k \in 1..3, nl \in SeqsUpTo(NodeEntries, MaxNodes), nf \in Fillers,
     el \in SeqsUpTo(EdgeEntries, MaxEdges), ef \in Fillers}
  \cup
  {ParsedObject(1, nl, U, <<EdgeB>>, U, l, g) :
     nl \in {<<>>, <<NodeA>>}, l \in Layouts, g \in GroupValues}
  \cup {Null}

\* Outputs whose edge array has a null entry beside an edge from n1 to n1,
\* and an agent whose id is n1.
AgentN1 == [id |-> Str("n1"), name |-> Str("X")]
NullEntryOutputs ==
  {ParsedObject(1, <<NodeA>>, U, el, U, U, U) :
     el \in {<<Null>>, <<Null, EdgeB>>, <<EdgeB, Null>>}}

DiagInit ==
  /\ \/ /\ parsed \in ParsedOutputs
        /\ inputAgents \in AgentLists
     \/ /\ parsed \in NullEntryOutputs
        /\ inputAgents \in {<<>>, <<AgentA>>, <<AgentN1>>}
  /\ dpc = "parsed"
  /\ result = [status |-> "none"]
  /\ result2 = [status |-> "none"]

DiagIdle ==
  /\ parsed = Null
  /\ inputAgents = <<>>
  /\ dpc = "idle"
  /\ result = [status |-> "none"]
  /\ result2 = [status |-> "none"]

\* The try block returns normalizedResponse.
NormalizeReturn ==
  /\ dpc = "parsed"
  /\ ~Normalization(parsed, inputAgents).threw
  /\ result' = Normalized(parsed, inputAgents)
  /\ dpc' = "normalized"
  /\ UNCHANGED <<parsed, inputAgents, result2, diagFrame>>

\* The try block throws and the catch block returns the fallback diagram.
NormalizeCatch ==
  /\ dpc = "parsed"
  /\ Normalization(parsed, inputAgents).threw
  /\ result' = Normalized(parsed, inputAgents)
  /\ dpc' = "normalized"
  /\ UNCHANGED <<parsed, inputAgents, result2, diagFrame>>

\* The returned diagram is given back as the parsed model output, with the
\* same agents.
Renormalize ==
  /\ dpc = "normalized"
  /\ result.status = "returned"
  /\ result2' = Normalized(result.diagram, inputAgents)
  /\ dpc' = "renormalized"
  /\ UNCHANGED <<parsed, inputAgents, result, diagFrame>>

DiagNext == NormalizeReturn \/ NormalizeCatch \/ Renormalize

(***************************************************************************)
(*                          CONFIDENCE SCORER                              *)
(*                                                                         *)
(* Entity strings are strings; the source text (systemDescription) is the  *)
(* sequence of its words, separated by single spaces.  Scores are computed *)
(* in exact rational arithmetic and rounded as Math.round rounds.          *)
(***************************************************************************)

\* The longest agents list of a scored components object.
MaxScoredAgents == 2

\* Math.round(n / d) for d > 0: the nearest integer, halves upwards.
RoundDiv(n, d) == (2 * n + d) \div (2 * d)

RECURSIVE Rep(_, _)
\* The string s repeated n times.
Rep(s, n) ==
  IF n = 0 THEN ""
  ELSE LET h == Rep(s, n \div 2)
       IN IF n % 2 = 0 THEN h \o h ELSE h \o h \o s

RECURSIVE SumLen(_)
SumLen(words) ==
  IF words = <<>> THEN 0 ELSE Len(Head(words)) + SumLen(Tail(words))

\* systemDescription.length
TextLength(words) ==
  IF words = <<>> THEN 0 ELSE SumLen(words) + Len(words) - 1

\* String.prototype.toLowerCase on the words of the model.
Lower(w) ==
  CASE w \in {"Planner", "PLANNER"} -> "planner"
    [] w = "Coder" -> "coder"
    [] w = "Search" -> "search"
    [] OTHER -> w

\* v.length of a string value, and of an array value
Length(v) == IF IsString(v) THEN Len(v.s) ELSE Len(v.a)

\* (systemDescription.match(new RegExp(escaped name, 'gi')) || []).length
MentionCount(name, words) ==
  Cardinality({i \in 1..Len(words) : Lower(words[i]) = Lower(name.s)})

\* systemDescription.toLowerCase().includes(tool.name.toLowerCase())
IsExplicit(name, words) ==
  \E i \in 1..Len(words) : Lower(words[i]) = Lower(name.s)

\* /#+\s+\w+/gm.test(systemDescription)
HasSections(words) ==
  \E i \in 1..(Len(words) - 1) :
     words[i] \in {"#", "##"} /\ words[i + 1] \notin {"#", "##"}

\* includes('example') || includes('for instance')
HasExample(words) ==
  Includes(words, <<"example">>) \/ Includes(words, <<"for", "instance">>)

baseline == 70

\* Math.min(100, Math.round(baseline + detailScore + mentionScore + roleScore))
AgentConfidenceUncapped(agent, words) ==
  LET description == Get(agent, "description")
      role == Get(agent, "role")
      detail20 == IF Truthy(description) THEN Min(15 * 20, Length(description))
                  ELSE 0
      mentionScore == Min(10, MentionCount(Get(agent, "name"), words) * 2)
      roleScore == IF Truthy(role) /\ Length(role) > 10 THEN 10 ELSE 0
  IN RoundDiv((baseline + mentionScore + roleScore) * 20 + detail20, 20)

AgentConfidence(agent, words) ==
  LET description == Get(agent, "description")
      role == Get(agent, "role")
      detail20 == IF Truthy(description) THEN Min(15 * 20, Length(description))
                  ELSE 0
      mentionScore == Min(10, MentionCount(Get(agent, "name"), words) * 2)
      roleScore == IF Truthy(role) /\ Length(role) > 10 THEN 10 ELSE 0
  IN Min(100, RoundDiv((baseline + mentionScore + roleScore) * 20 + detail20, 20))

\* Math.min(100, Math.round(baseline + specificityScore + purposeScore + explicitScore))
ToolConfidence(tool, words) ==
  LET purpose == Get(tool, "purpose")
      specificityScore == IF Length(Get(tool, "name")) > 3 THEN 10 ELSE 0
      purposeScore == IF Truthy(purpose) /\ Length(purpose) > 15 THEN 15 ELSE 0
      explicitScore == IF IsExplicit(Get(tool, "name"), words) THEN 15 ELSE 0
  IN Min(100, baseline + specificityScore + purposeScore + explicitScore)

\* Math.min(100, Math.round(baseline + clarityScore + sourceTargetScore + dataFlowScore))
RelationshipConfidence(rel) ==
  LET description == Get(rel, "description")
      clarityScore == IF Truthy(description) /\ Length(description) > 20
                      THEN 15 ELSE 0
      sourceTargetScore ==
        IF Truthy(Get(rel, "source")) /\ Truthy(Get(rel, "target")) THEN 15 ELSE 0
      dataFlowScore == IF Truthy(Get(rel, "dataFlow")) THEN 10 ELSE 0
  IN Min(100, baseline + clarityScore + sourceTargetScore + dataFlowScore)

\* {...entity, confidence}
WithConfidence(entity, c) == ("confidence" :> Num(c)) @@ entity

\* if (result.agents) result.agents = result.agents.map(...)
MapAgents(list, words) ==
  IF Truthy(list)
    THEN Arr([i \in 1..Len(list.a) |->
                WithConfidence(list.a[i], AgentConfidence(list.a[i], words))])
    ELSE list

\* if (result.tools) result.tools = result.tools.map(...)
MapTools(list, words) ==
  IF Truthy(list)
    THEN Arr([i \in 1..Len(list.a) |->
                WithConfidence(list.a[i], ToolConfidence(list.a[i], words))])
    ELSE list

\* if (result.relationships) result.relationships = result.relationships.map(...)
MapRelationships(list) ==
  IF Truthy(list)
    THEN Arr([i \in 1..Len(list.a) |->
                WithConfidence(list.a[i], RelationshipConfidence(list.a[i]))])
    ELSE list

RECURSIVE SumConfidence(_)
\* agentScores.reduce((a, b) => a + b, 0) with agentScores = a.confidence || 0
SumConfidence(entities) ==
  IF entities = <<>> THEN 0
  ELSE Or(Get(Head(entities), "confidence"), Num(0)).n
       + SumConfidence(Tail(entities))

\* components.x && components.x.length > 0
NonEmpty(list) == Truthy(list) /\ Length(list) > 0

\* calculateOverallConfidence: Math.round(score)
OverallConfidence(comps, words) ==
  LET n == IF NonEmpty(comps.agents) THEN Length(comps.agents) ELSE 1
      D == 200 * 10 * n
      lengthPart == Min(10 * D, TextLength(words) * 10 * n)
      agentPart == IF NonEmpty(comps.agents)
                     THEN Min(10 * D, SumConfidence(comps.agents.a) * 200)
                     ELSE (0 - 15) * D
      toolPart == IF NonEmpty(comps.tools) THEN 5 * D ELSE 0
      relPart == IF NonEmpty(comps.relationships) THEN 10 * D ELSE 0
  IN RoundDiv(65 * D + lengthPart + agentPart + toolPart + relPart, D)

\* assessCompleteness
CompletenessCountsEmptyTools(comps) ==
  50 + (IF NonEmpty(comps.agents) THEN 15 ELSE 0)
     + (IF Truthy(comps.tools) THEN 10 ELSE 0)
     + (IF NonEmpty(comps.relationships) THEN 15 ELSE 0)
     + (IF Truthy(comps.orchestrationPattern) THEN 10 ELSE 0)

Completeness(comps) ==
  50 + (IF NonEmpty(comps.agents) THEN 15 ELSE 0)
     + (IF NonEmpty(comps.tools) THEN 10 ELSE 0)
     + (IF NonEmpty(comps.relationships) THEN 15 ELSE 0)
     + (IF Truthy(comps.orchestrationPattern) THEN 10 ELSE 0)

\* assessConsistency
Consistency(comps) ==
  IF Truthy(comps.relationships) /\ Truthy(comps.agents)
    THEN LET agentNames == {Get(comps.agents.a[i], "name") :
                              i \in 1..Len(comps.agents.a)}
             rels == comps.relationships.a
             valid == Cardinality({i \in 1..Len(rels) :
                         /\ Get(rels[i], "source") \in agentNames
                         /\ Get(rels[i], "target") \in agentNames})
         IN IF Len(rels) > 0 THEN 70 + RoundDiv(20 * valid, Len(rels)) ELSE 70
    ELSE 70

\* assessClarity
Clarity(words) ==
  RoundDiv((60 + (IF HasSections(words) THEN 15 ELSE 0)
               + (IF HasExample(words) THEN 10 ELSE 0)) * 300
           + Min(10 * 300, TextLength(words)), 300)

\* overall: Math.min(95, this.calculateOverallConfidence(result, systemDescription))
SystemOverallUncapped(scoredComponents, words) ==
  OverallConfidence(scoredComponents, words)

SystemOverall(scoredComponents, words) ==
  Min(95, OverallConfidence(scoredComponents, words))

\* result.x.map(...) throws a TypeError when result.x is truthy but not an
\* array.
MapThrows(list) == Truthy(list) /\ ~IsArray(list)

\* agent.name.replace(...) and tool.name.length throw a TypeError when the
\* name is undefined.
ScoringThrows(comps) ==
  \/ MapThrows(comps.agents)
  \/ /\ IsArray(comps.agents)
     /\ \E i \in 1..Len(comps.agents.a) :
          ~IsString(Get(comps.agents.a[i], "name"))
  \/ MapThrows(comps.tools)
  \/ /\ IsArray(comps.tools)
     /\ \E i \in 1..Len(comps.tools.a) :
          ~IsString(Get(comps.tools.a[i], "name"))
  \/ MapThrows(comps.relationships)

\* const result = { ...components }: the assignments result.agents = ...,
\* result.tools = ..., result.relationships = ... and
\* result.systemConfidence = ... write to a new object, and the entities are
\* rebuilt by { ...agent, confidence } inside map, which returns a new array.
\* Without the spread (const result = components) they would write to the
\* argument.
ResultIsCopyWithoutSpread == FALSE

ResultIsCopy == TRUE

\* calculateConfidenceScores: the returned copy
ConfidenceScores(comps, words) ==
  LET r == [comps EXCEPT
              !.agents = MapAgents(@, words),
              !.tools = MapTools(@, words),
              !.relationships = MapRelationships(@)]
  IN [systemConfidence |->
        [overall |-> SystemOverall(r, words),
         completeness |-> Completeness(r),
         consistency |-> Consistency(r),
         clarity |-> Clarity(words)]] @@ r

\* The components argument as the caller sees it after the call.
ComponentsAfter(comps, words) ==
  IF ResultIsCopy THEN comps ELSE ConfidenceScores(comps, words)

\* Tool selection scores ---------------------------------------------------

\* calculateToolSelectionAgentConfidence
TsAgentConfidence(agent, selections) ==
  LET name == Get(agent, "name")
      description == Get(agent, "description")
      capabilities == Get(agent, "capabilities")
      tools == Get(agent, "tools")
      compatible == IF NonEmpty(tools)
                      THEN Cardinality({i \in 1..Len(tools.a) :
                              tools.a[i] \in selections})
                      ELSE 0
  IN Min(100,
       (IF Truthy(name) /\ Length(name) > 0 THEN 15 ELSE 0)
       + (IF Truthy(description) /\ Length(description) > 20 THEN 20 ELSE 0)
       + (IF NonEmpty(capabilities) THEN 20 ELSE 0)
       + (IF NonEmpty(tools) THEN RoundDiv(compatible * 30, Len(tools.a)) ELSE 0))

\* calculateToolSelectionToolConfidence
TsToolConfidence(tool) ==
  LET name == Get(tool, "name")
      description == Get(tool, "description")
      parameters == Get(tool, "parameters")
  IN Min(100,
       50 + (IF Truthy(name) /\ Length(name) > 0 THEN 10 ELSE 0)
          + (IF Truthy(description) /\ Length(description) > 20 THEN 20 ELSE 0)
          + (IF Truthy(parameters) /\ IsArray(parameters) THEN 20 ELSE 0))

\* calculateToolSelectionRelationshipConfidence
TsRelationshipConfidence(rel) ==
  LET type == Get(rel, "type")
      description == Get(rel, "description")
  IN Min(100,
       50 + (IF Truthy(type) /\ Length(type) > 0 THEN 15 ELSE 0)
          + (IF Truthy(Get(rel, "source")) /\ Truthy(Get(rel, "target"))
               THEN 15 ELSE 0)
          + (IF Truthy(description) /\ Length(description) > 10 THEN 20 ELSE 0))

RECURSIVE SumTsAgents(_, _)
SumTsAgents(agents, selections) ==
  IF agents = <<>> THEN 0
  ELSE TsAgentConfidence(Head(agents), selections)
       + SumTsAgents(Tail(agents), selections)

RECURSIVE SumTsTools(_)
SumTsTools(tools) ==
  IF tools = <<>> THEN 0 ELSE TsToolConfidence(Head(tools)) + SumTsTools(Tail(tools))

RECURSIVE SumTsRelationships(_)
SumTsRelationships(rels) ==
  IF rels = <<>> THEN 0
  ELSE TsRelationshipConfidence(Head(rels)) + SumTsRelationships(Tail(rels))

\* calculateToolSelectionOverallConfidence:
\* Math.min(95, Math.round(avgAgent * 0.4 + avgTool * 0.3 + avgRel * 0.3))
TsOverallConfidence(dsn, selections) ==
  LET nA == IF NonEmpty(dsn.agents) THEN Length(dsn.agents) ELSE 1
      nT == IF NonEmpty(dsn.tools) THEN Length(dsn.tools) ELSE 1
      nR == IF NonEmpty(dsn.relationships) THEN Length(dsn.relationships)
            ELSE 1
      sA == IF NonEmpty(dsn.agents)
              THEN SumTsAgents(dsn.agents.a, selections) ELSE 0
      sT == IF NonEmpty(dsn.tools) THEN SumTsTools(dsn.tools.a) ELSE 0
      sR == IF NonEmpty(dsn.relationships)
              THEN SumTsRelationships(dsn.relationships.a) ELSE 0
  IN Min(95, RoundDiv(4 * sA * nT * nR + 3 * sT * nA * nR + 3 * sR * nA * nT,
                      10 * nA * nT * nR))

\* calculateToolSelectionConfidenceScores
TsConfidenceScores(dsn, selections) ==
  [overall |-> TsOverallConfidence(dsn, selections),
   agents |-> IF Truthy(dsn.agents)
                THEN {<<Get(dsn.agents.a[i], "name"),
                        TsAgentConfidence(dsn.agents.a[i], selections)>> :
                        i \in 1..Len(dsn.agents.a)}
                ELSE {},
   toolIntegration |-> IF Truthy(dsn.tools) THEN SumTsTools(dsn.tools.a)
                       ELSE 0,
   orchestration |-> IF Truthy(dsn.relationships)
                       THEN SumTsRelationships(dsn.relationships.a) ELSE 0]

\* Scorer inputs -------------------------------------------------------------

DescShort == Str(Rep("d", 45))
DescLong == Str(Rep("d", 310))
RoleLong == Str("orchestrates")

ScoredAgents ==
  {[name |-> Str("Planner")] @@ d @@ r :
     d \in {<<>>, [description |-> DescShort], [description |-> DescLong]},
     r \in {<<>>, [role |-> RoleLong]}}
  \cup {[name |-> Str("Coder"), role |-> Str("codes")],
        [role |-> RoleLong, description |-> DescShort]}

ToolDb == [name |-> Str("db")]
ToolSearch == [name |-> Str("Search"),
               purpose |-> Str("searches the web for facts")]
ToolLists == {U, Arr(<<>>), Arr(<<ToolDb>>), Arr(<<ToolSearch, ToolDb>>)}

RelGood == [source |-> Str("Planner"), target |-> Str("Coder"),
            description |-> Str("hands the plan over to the coder"),
            dataFlow |-> Str("plan")]
RelBad == [source |-> Str("Planner"), target |-> Str("Reviewer")]
RelationshipLists ==
  {U, Arr(<<>>), Arr(<<RelGood>>), Arr(<<RelBad>>), Arr(<<RelGood, RelBad, RelBad>>)}

Pattern == [type |-> Str("Sequential")]

TextEmpty == <<>>
TextShort == <<"Planner", "uses", "db">>
TextMentions == <<"planner", "PLANNER", "Planner", "planner", "Planner",
                  "Planner", "search", "for", "instance">>
TextMid == <<"#", "Goal", "an", "example", Rep("x", 150), "Coder">>
TextLong == <<"##", "Goal", "for", "example", Rep("x", 2400), "Planner",
              "planner", "Planner", "planner", "Planner", "Search">>
Texts == {TextEmpty, TextShort, TextMentions, TextMid, TextLong}

\* Components whose agents, tools or relationships field is present but not
\* an array.
NonArrayComponents ==
  {[agents |-> Str("none"), tools |-> U, relationships |-> U,
    orchestrationPattern |-> Pattern],
   [agents |-> Arr(<<[name |-> Str("Coder"), role |-> Str("codes")]>>),
    tools |-> ToolDb, relationships |-> U, orchestrationPattern |-> U],
   [agents |-> U, tools |-> Arr(<<ToolDb>>), relationships |-> Num(2),
    orchestrationPattern |-> Null]}

ComponentsInputs ==
  [agents : {U} \cup {Arr(l) : l \in SeqsUpTo(ScoredAgents, MaxScoredAgents)},
   tools : ToolLists,
   relationships : RelationshipLists,
   orchestrationPattern : {U, Null, Pattern}]
  \cup NonArrayComponents

TsAgentA == [name |-> Str("Planner"), description |-> DescShort,
             capabilities |-> Arr(<<Str("plan")>>),
             tools |-> Arr(<<Str("db")>>)]
TsAgentB == [name |-> Str("Coder"),
             tools |-> Arr(<<Str("db"), Str("git"), Str("Search")>>)]
TsAgentC == [name |-> Str(""), capabilities |-> Arr(<<>>)]
TsToolA == [name |-> Str("db"), description |-> Str("a relational database store"),
            parameters |-> Arr(<<Str("query")>>)]
TsToolB == [name |-> Str("git")]
TsRelA == [type |-> Str("delegates_to"), source |-> Str("Planner"),
           target |-> Str("Coder"), description |-> Str("delegates coding")]
TsRelB == [from |-> Str("Planner"), to |-> Str("Coder")]

DesignInputs ==
  [agents : {U} \cup {Arr(l) : l \in SeqsUpTo({TsAgentA, TsAgentB, TsAgentC}, 2)},
   tools : {U, Arr(<<>>), Arr(<<TsToolA>>), Arr(<<TsToolA, TsToolB>>)},
   relationships : {U, Arr(<<TsRelA>>), Arr(<<TsRelB, TsRelA>>)}]

ToolSelectionInputs == {{}, {Str("db")}, {Str("db"), Str("git"), Str("Search")}}

NoComponents == [agents |-> U, tools |-> U, relationships |-> U,
                 orchestrationPattern |-> U]
NoDesign == [agents |-> U, tools |-> U, relationships |-> U]

ScoreIdle ==
  /\ spc = "idle"
  /\ components = NoComponents
  /\ passed = NoComponents
  /\ sourceText = <<>>
  /\ design = NoDesign
  /\ toolSelections = {}
  /\ scored = [status |-> "none"]

ScoreInit ==
  /\ scored = [status |-> "none"]
  /\ passed = NoComponents
  /\ \/ /\ spc = "components"
        /\ components \in ComponentsInputs
        /\ sourceText \in Texts
        /\ design = NoDesign
        /\ toolSelections = {}
     \/ /\ spc = "design"
        /\ design \in DesignInputs
        /\ toolSelections \in ToolSelectionInputs
        /\ components = NoComponents
        /\ sourceText = <<>>

\* calculateConfidenceScores returns the scored copy.
Score ==
  /\ spc = "components"
  /\ ~ScoringThrows(components)
  /\ scored' = [status |-> "returned",
                value |-> ConfidenceScores(components, sourceText)]
  /\ passed' = components
  /\ components' = ComponentsAfter(components, sourceText)
  /\ spc' = "scored"
  /\ UNCHANGED <<sourceText, design, toolSelections, scoreFrame>>

\* calculateConfidenceScores throws on an entity without a name.
ScoreThrows ==
  /\ spc = "components"
  /\ ScoringThrows(components)
  /\ scored' = [status |-> "threw", error |-> "TypeError"]
  /\ passed' = components
  /\ spc' = "scored"
  /\ UNCHANGED <<components, sourceText, design, toolSelections, scoreFrame>>

\* calculateToolSelectionConfidenceScores returns confidenceScores.
ScoreToolSelection ==
  /\ spc = "design"
  /\ scored' = [status |-> "returned",
                confidenceScores |-> TsConfidenceScores(design, toolSelections)]
  /\ spc' = "tsScored"
  /\ UNCHANGED <<components, passed, sourceText, design, toolSelections,
                 scoreFrame>>

ScoreNext == Score \/ ScoreThrows \/ ScoreToolSelection

(***************************************************************************)
(*                         ENTITY-MATCH EVALUATOR                          *)
(* promptTestingService.ts: calculateEntityAccuracy,                       *)
(* calculateEntityMatchScore, calculateStringSimilarity.  Scores are exact *)
(* fractions n/d; d = 0 stands for NaN (0 / 0).                            *)
(***************************************************************************)

MaxEntities == 2

Frac(n, d) == [n |-> n, d |-> d]
NaN == Frac(0, 0)
Zero == Frac(0, 1)
One == Frac(1, 1)

RECURSIVE GCD(_, _)
GCD(a, b) == IF b = 0 THEN a ELSE GCD(b, a % b)

Reduce(x) ==
  IF x.d = 0 THEN NaN
  ELSE LET g == GCD(x.n, x.d) IN Frac(x.n \div g, x.d \div g)

\* x + y
Plus(x, y) ==
  IF x.d = 0 \/ y.d = 0 THEN NaN
  ELSE Reduce(Frac(x.n * y.d + y.n * x.d, x.d * y.d))

\* x / k for a count k; the numerator is 0 whenever k is 0 here, and 0 / 0
\* is NaN.
Over(x, k) ==
  IF x.d = 0 \/ k = 0 THEN NaN ELSE Reduce(Frac(x.n, x.d * k))

\* x > y (false when either is NaN)
Greater(x, y) == x.d # 0 /\ y.d # 0 /\ x.n * y.d > y.n * x.d

Max(a, b) == IF a >= b THEN a ELSE b

\* str.split(/\s+/) as a set, on the strings of the model.
Words(s) ==
  CASE s = "plans the work" -> {"plans", "the", "work"}
    [] s = "plans the daily work" -> {"plans", "the", "daily", "work"}
    [] s = "writes code" -> {"writes", "code"}
    [] OTHER -> {s}

\* calculateStringSimilarity
StringSimilarity(str1, str2) ==
  IF str1 = str2 THEN One
  ELSE IF str1 = "" \/ str2 = "" THEN Zero
  ELSE Reduce(Frac(Cardinality(Words(str1) \cap Words(str2)),
                   Cardinality(Words(str1) \cup Words(str2))))

\* expectedSet.has(item): primitives are found by value, objects and arrays
\* by reference only, and two parsed documents share no reference.
Has(items, item) ==
  /\ ~IsObject(item) /\ ~IsArray(item)
  /\ \E j \in 1..Len(items) : items[j] = item

\* typeof v === 'object' && v !== null
IsObjectLike(v) == IsObject(v) \/ IsArray(v)

RECURSIVE EntityMatchScore(_, _)
RECURSIVE KeyScore(_, _)
RECURSIVE SumKeyScores(_, _, _)

\* The contribution of one key that both entities define.
KeyScore(av, ev) ==
  IF IsArray(ev) /\ IsArray(av)
    THEN Over(Frac(Cardinality({i \in 1..Len(av.a) : Has(ev.a, av.a[i])}), 1),
              Max(Len(ev.a), Len(av.a)))
  ELSE IF IsObjectLike(ev) /\ IsObjectLike(av)
    \* an array against a plain object: the index keys of the one and the
    \* names of the other never meet, so the nested score is 0
    THEN IF IsObject(ev) /\ IsObject(av) THEN EntityMatchScore(av, ev)
         ELSE Zero
  ELSE IF ev = av THEN One
  ELSE IF IsString(ev) /\ IsString(av)
    THEN LET similarity == StringSimilarity(Lower(ev.s), Lower(av.s))
         IN IF Greater(similarity, Frac(7, 10)) THEN similarity ELSE Zero
  ELSE Zero

SumKeyScores(a, e, keys) ==
  IF keys = {} THEN Zero
  ELSE LET k == CHOOSE x \in keys : TRUE
       IN Plus(KeyScore(a[k], e[k]), SumKeyScores(a, e, keys \ {k}))

\* calculateEntityMatchScore
EntityMatchScore(a, e) ==
  LET allKeys == DOMAIN a \cup DOMAIN e
      expectedKeys == {k \in allKeys : Get(e, k) # U}
      commonKeys == {k \in expectedKeys : Get(a, k) # U}
      totalKeys == Cardinality(expectedKeys)
  IN IF totalKeys > 0 THEN Over(SumKeyScores(a, e, commonKeys), totalKeys)
     ELSE Zero

\* An inner loop that keeps the score of the last actual entity.
LastMatchScore(actualEntities, expectedEntity, bestMatchScore) ==
  IF actualEntities = <<>> THEN bestMatchScore
  ELSE LET matchScore == EntityMatchScore(actualEntities[Len(actualEntities)],
                                          expectedEntity)
       IN IF matchScore.d = 0 THEN Zero ELSE matchScore

RECURSIVE BestMatchScore(_, _, _)
\* The inner loop of calculateEntityAccuracy: the best score of one expected
\* entity over the actual entities, starting from bestMatchScore.
BestMatchScore(actualEntities, expectedEntity, bestMatchScore) ==
  IF actualEntities = <<>> THEN bestMatchScore
  ELSE LET matchScore == EntityMatchScore(Head(actualEntities), expectedEntity)
       IN BestMatchScore(Tail(actualEntities), expectedEntity,
                         IF Greater(matchScore, bestMatchScore)
                           THEN matchScore ELSE bestMatchScore)

RECURSIVE MatchCount(_, _)
\* matchCount after the outer loop
MatchCount(actualEntities, expectedEntities) ==
  IF expectedEntities = <<>> THEN Zero
  ELSE Plus(BestMatchScore(actualEntities, Head(expectedEntities), Zero),
            MatchCount(actualEntities, Tail(expectedEntities)))

\* calculateEntityAccuracy without its two empty-list cases.
EntityAccuracyUnguarded(actualEntities, expectedEntities) ==
  Over(MatchCount(actualEntities, expectedEntities), Len(expectedEntities))

\* calculateEntityAccuracy
EntityAccuracy(actualEntities, expectedEntities) ==
  IF Len(expectedEntities) = 0
    THEN IF Len(actualEntities) = 0 THEN One ELSE Zero
  ELSE IF Len(actualEntities) = 0 THEN Zero
  ELSE Over(MatchCount(actualEntities, expectedEntities), Len(expectedEntities))

\* Evaluator inputs ---------------------------------------------------------

EntPlanner == [name |-> Str("Planner"), role |-> Str("plans the work")]
EntPlannerLoose ==
  [name |-> Str("planner"), role |-> Str("plans the daily work")]
EntCoder == [name |-> Str("Coder"), role |-> Str("writes code"),
             tags |-> Arr(<<Str("py"), Str("ts")>>)]
EntCoderTags == [name |-> Str("Coder"), tags |-> Arr(<<Str("ts")>>)]
EntNoTags == [name |-> Str("Coder"), tags |-> Arr(<<>>)]
EntNested == [name |-> Str("db"),
              config |-> [host |-> Str("h"), port |-> Num(1)]]
EntNull == [name |-> Null, config |-> Arr(<<Num(1)>>)]
EvalEntities == {EntPlanner, EntPlannerLoose, EntCoder, EntCoderTags,
                 EntNoTags, EntNested, EntNull}

EvalIdle ==
  /\ epc = "idle"
  /\ actual = <<>>
  /\ expected = <<>>
  /\ accuracy = [status |-> "none"]

EvalInit ==
  /\ epc = "entities"
  /\ actual \in SeqsUpTo(EvalEntities, MaxEntities)
  /\ expected \in SeqsUpTo(EvalEntities, MaxEntities)
  /\ accuracy = [status |-> "none"]

\* calculateEntityAccuracy(actual, expected)
Evaluate ==
  /\ epc = "entities"
  /\ accuracy' = [status |-> "returned",
                  value |-> EntityAccuracy(actual, expected)]
  /\ epc' = "evaluated"
  /\ UNCHANGED <<actual, expected, evalFrame>>

EvalNext == Evaluate

(***************************************************************************)
(*                             TEXT EXTRACTOR                              *)
(* The text of a model response is a sequence of tokens: "p" a run of      *)
(* prose without braces, backticks or newlines, "nl" one newline, "fence" *)
(* three backticks, "json" the tag written right after them, "{" and "}",  *)
(* "m1" "m2" a scalar member ("a": 1) of an object, "k" the key of a       *)
(* nested value ("a":), "s" a scalar JSON value that is not null.          *)
(***************************************************************************)

Fence == "fence"

\* String.prototype.trim
RECURSIVE TrimStart(_)
TrimStart(ts) ==
  IF ts # <<>> /\ Head(ts) = "nl" THEN TrimStart(Tail(ts)) ELSE ts

RECURSIVE TrimEnd(_)
TrimEnd(ts) ==
  IF ts # <<>> /\ ts[Len(ts)] = "nl"
    THEN TrimEnd(SubSeq(ts, 1, Len(ts) - 1)) ELSE ts

TrimText(ts) == TrimEnd(TrimStart(ts))

\* The text without its whitespace, as JSON.parse reads it.
NoWhitespace(ts) == LET NotNl(x) == x # "nl" IN SelectSeq(ts, NotNl)

Positions(ts, token) == {i \in 1..Len(ts) : ts[i] = token}

Least(S) == CHOOSE x \in S : \A y \in S : x <= y
Greatest(S) == CHOOSE x \in S : \A y \in S : x >= y

SyntaxError == [ok |-> FALSE]

RECURSIVE ParseValue(_, _)
RECURSIVE ParseMembers(_, _, _)

\* A JSON value starting at ts[i]: a scalar or an object.
ParseValue(ts, i) ==
  IF i > Len(ts) THEN SyntaxError
  ELSE IF ts[i] = "s"
    THEN [ok |-> TRUE, next |-> i + 1, value |-> [json |-> "scalar"]]
  ELSE IF ts[i] = "{" THEN ParseMembers(ts, i + 1, <<>>)
  ELSE SyntaxError

\* The members of an object up to its closing brace.
ParseMembers(ts, i, members) ==
  IF i > Len(ts) THEN SyntaxError
  ELSE IF ts[i] = "}"
    THEN [ok |-> TRUE, next |-> i + 1,
          value |-> [json |-> "object", members |-> members]]
  ELSE IF ts[i] \in {"m1", "m2"}
    THEN ParseMembers(ts, i + 1,
                      Append(members, [json |-> "member", name |-> ts[i]]))
  ELSE IF ts[i] = "k"
    THEN LET v == ParseValue(ts, i + 1)
         IN IF v.ok THEN ParseMembers(ts, v.next, Append(members, v.value))
            ELSE SyntaxError
  ELSE SyntaxError

\* JSON.parse: the value, or a SyntaxError.
JsonParse(ts) ==
  LET clean == NoWhitespace(ts)
      v == ParseValue(clean, 1)
  IN IF v.ok /\ v.next = Len(clean) + 1
       THEN [ok |-> TRUE, value |-> v.value]
       ELSE SyntaxError

\* In the patterns below FENCE stands for the three backticks.
NoMatch == [found |-> FALSE]

\* text.match(/\{[\s\S]*\}/): from the first { to the last }
GreedyBraces(ts) ==
  LET opens == Positions(ts, "{")
      closes == IF opens = {} THEN {}
                ELSE {j \in Positions(ts, "}") : j > Least(opens)}
  IN IF closes = {} THEN NoMatch
     ELSE [found |-> TRUE, whole |-> SubSeq(ts, Least(opens), Greatest(closes))]

\* text.match(/\{[\s\S]*?\}/): from the first { to the first } after it
LazyBraces(ts) ==
  LET opens == Positions(ts, "{")
      closes == IF opens = {} THEN {}
                ELSE {j \in Positions(ts, "}") : j > Least(opens)}
  IN IF closes = {} THEN NoMatch
     ELSE [found |-> TRUE, whole |-> SubSeq(ts, Least(opens), Least(closes))]

\* The fences that open a match of the pattern: start(i) is where the
\* content may begin after ts[i], or 0 when the pattern does not fit at i;
\* a closing fence must follow.
FencePair(ts, opening, closing) ==
  IF opening = {} THEN NoMatch
  ELSE LET i == Least(opening)
       IN [found |-> TRUE, open |-> i, close |-> Least(closing[i])]

\* text.match(/FENCE(?:json)?\s*([\s\S]*?)\s*FENCE/): group 1 is what lies
\* between the first two fences, without the tag and the surrounding
\* whitespace.
CodeBlock(ts) ==
  LET fences == Positions(ts, Fence)
      later == [i \in fences |-> {j \in fences : j > i}]
      pair == FencePair(ts, {i \in fences : later[i] # {}}, later)
  IN IF ~pair.found THEN NoMatch
     ELSE LET first == IF ts[pair.open + 1] = "json"
                         THEN pair.open + 2 ELSE pair.open + 1
          IN [found |-> TRUE,
              whole |-> SubSeq(ts, pair.open, pair.close),
              group |-> TrimText(SubSeq(ts, first, pair.close - 1))]

\* text.match(/FENCEjson\n([\s\S]*?)\nFENCE/) when tagged, and
\* text.match(/FENCE\n([\s\S]*?)\nFENCE/) when not: the fence (and tag) is
\* followed by a newline, and group 1 ends before the first newline that a
\* fence follows.
LineBlock(ts, tagged) ==
  LET skip == IF tagged THEN 2 ELSE 1
      Opens(i) == /\ ts[i] = Fence
                  /\ i + skip <= Len(ts)
                  /\ tagged => ts[i + 1] = "json"
                  /\ ts[i + skip] = "nl"
      ends == [i \in 1..Len(ts) |->
                 {j \in (i + skip + 1)..(Len(ts) - 1) :
                    ts[j] = "nl" /\ ts[j + 1] = Fence}]
      pair == FencePair(ts, {i \in 1..Len(ts) : Opens(i) /\ ends[i] # {}}, ends)
  IN IF ~pair.found THEN NoMatch
     ELSE [found |-> TRUE,
           whole |-> SubSeq(ts, pair.open, pair.close + 1),
           group |-> SubSeq(ts, pair.open + skip + 1, pair.close - 1)]

\* text.match(/FENCE(?:json)?\s*({[\s\S]*?})\s*FENCE/): after a fence, the tag
\* and whitespace comes a {, and group 1 runs to the first } that only
\* whitespace separates from a fence.
BraceBlock(ts) ==
  LET Begin(i) ==
        LET a == IF i + 1 <= Len(ts) /\ ts[i + 1] = "json" THEN i + 2 ELSE i + 1
            rest == SubSeq(ts, a, Len(ts))
        IN a + (Len(rest) - Len(TrimStart(rest)))
      Closes(j) ==
        LET rest == TrimStart(SubSeq(ts, j + 1, Len(ts)))
        IN ts[j] = "}" /\ rest # <<>> /\ Head(rest) = Fence
      ends == [i \in 1..Len(ts) |->
                 IF ts[i] = Fence /\ Begin(i) <= Len(ts) /\ ts[Begin(i)] = "{"
                   THEN {j \in (Begin(i) + 1)..Len(ts) : Closes(j)}
                   ELSE {}]
      pair == FencePair(ts, {i \in 1..Len(ts) : ends[i] # {}}, ends)
  IN IF ~pair.found THEN NoMatch
     ELSE [found |-> TRUE,
           group |-> SubSeq(ts, Begin(pair.open), pair.close)]

\* What the caller of an operation observes: a returned result built from
\* the parsed value, a returned fallback diagram, or an error.
NoValue == [json |-> "none"]
Returned(v) ==
  [status |-> "returned", error |-> "", parsed |-> v, fallback |-> FALSE]
Threw(message) ==
  [status |-> "threw", error |-> message, parsed |-> NoValue, fallback |-> FALSE]
FellBack(message) ==
  [status |-> "returned", error |-> message, parsed |-> NoValue, fallback |-> TRUE]

\* An outcome together with the texts the operation handed to JSON.parse, in
\* the order of the calls.
Parsing(texts, outcome) == [parses |-> texts] @@ outcome

\* processInitialDescription: withRetry returns generationResult.response
\* and text is the response property of that response object, which is not
\* a string, so text.match(...) throws a TypeError whatever the model wrote.
ProcessInitialDescription(ts) == Parsing(<<>>, Threw("TypeError"))

\* processToolSelections, from the model's text to the returned design.
ProcessToolSelections(ts) ==
  LET tagged == LineBlock(ts, TRUE)
      untagged == LineBlock(ts, FALSE)
      jsonMatch == IF tagged.found THEN tagged
                   ELSE IF untagged.found THEN untagged
                   ELSE GreedyBraces(ts)
      Wrapped(m) == Threw("Failed to process tool selections: " \o m)
  IN IF ~jsonMatch.found
       THEN Parsing(<<>>, Wrapped("No JSON found in the response"))
     ELSE LET jsonStr == IF Head(jsonMatch.whole) = "{" THEN jsonMatch.whole
                         ELSE jsonMatch.group
              first == JsonParse(jsonStr)
              fullJsonMatch == GreedyBraces(ts)
              failed == Wrapped("Failed to extract valid JSON from response")
          IN IF first.ok THEN Parsing(<<jsonStr>>, Returned(first.value))
             ELSE IF ~fullJsonMatch.found THEN Parsing(<<jsonStr>>, failed)
             ELSE Parsing(<<jsonStr, fullJsonMatch.whole>>,
                          IF JsonParse(fullJsonMatch.whole).ok
                            THEN Returned(JsonParse(fullJsonMatch.whole).value)
                            ELSE failed)

\* generateSystemDiagram, from the model's text to jsonResponse; every error
\* of the try block ends in the catch block, which returns the fallback
\* diagram.
GenerateSystemDiagram(ts) ==
  LET trimmed == TrimText(ts)
      direct == /\ trimmed # <<>>
                /\ Head(trimmed) = "{" /\ trimmed[Len(trimmed)] = "}"
      codeBlockMatch == CodeBlock(ts)
      inlineMatch == LazyBraces(ts)
  IN IF ~direct /\ ~(codeBlockMatch.found /\ codeBlockMatch.group # <<>>)
        /\ ~inlineMatch.found
       THEN Parsing(<<>>, FellBack("Invalid response format: no JSON found"))
     ELSE LET jsonText == IF direct THEN trimmed
                          ELSE IF codeBlockMatch.found
                                  /\ codeBlockMatch.group # <<>>
                            THEN TrimText(codeBlockMatch.group)
                          ELSE inlineMatch.whole
              first == JsonParse(jsonText)
              strictJsonMatch == LazyBraces(jsonText)
          IN IF first.ok THEN Parsing(<<jsonText>>, Returned(first.value))
             ELSE IF ~strictJsonMatch.found
               THEN Parsing(<<jsonText>>, FellBack("SyntaxError"))
             ELSE Parsing(<<jsonText, strictJsonMatch.whole>>,
                          IF JsonParse(strictJsonMatch.whole).ok
                            THEN Returned(JsonParse(strictJsonMatch.whole).value)
                            ELSE FellBack("SyntaxError"))

\* generateInitialAnalysis: the function passed to withRetry.  Its error
\* message is not transient, so withRetry rethrows it at once.
GenerateInitialAnalysis(ts) ==
  LET match == BraceBlock(ts)
      jsonText == IF match.found THEN match.group ELSE ts
      jsonResponse == JsonParse(jsonText)
  IN Parsing(<<jsonText>>,
             IF jsonResponse.ok THEN Returned(jsonResponse.value)
             ELSE Threw("Invalid response format from AI model"))

\* text.match(/FENCEjson\s*([\s\S]*?)\s*FENCE/) when tagged, and
\* text.match(/FENCE\s*([\s\S]*?)\s*FENCE/) when not: group 1 is what lies
\* between the first fence that fits (with its tag) and the next fence,
\* without the surrounding whitespace; without the tag in the pattern, a tag
\* written in the text is part of group 1.
AnyBlock(ts, tagged) ==
  LET skip == IF tagged THEN 1 ELSE 0
      fences == Positions(ts, Fence)
      Opens(i) == tagged => (i + 1 <= Len(ts) /\ ts[i + 1] = "json")
      later == [i \in fences |-> {j \in fences : j > i + skip}]
      pair == FencePair(ts, {i \in fences : Opens(i) /\ later[i] # {}}, later)
  IN IF ~pair.found THEN NoMatch
     ELSE [found |-> TRUE,
           group |-> TrimText(SubSeq(ts, pair.open + skip + 1, pair.close - 1))]

\* refineAgentDesign: the function passed to withRetry.  The javascript and
\* js tags and the single backtick are not written in the model texts, so
\* of the five code block patterns the first and the fourth can match; the
\* direct pattern is then the span from the first { to the last }.  A parsed
\* scalar is the invalid-structure error, which the same catch block
\* replaces.
RefineAgentDesign(ts) ==
  LET tagged == AnyBlock(ts, TRUE)
      untagged == AnyBlock(ts, FALSE)
      direct == GreedyBraces(ts)
      jsonText == IF tagged.found /\ tagged.group # <<>> THEN tagged.group
                  ELSE IF untagged.found /\ untagged.group # <<>>
                    THEN untagged.group
                  ELSE IF direct.found THEN TrimText(direct.whole)
                  ELSE ts
      jsonResponse == JsonParse(jsonText)
  IN Parsing(<<jsonText>>,
             IF jsonResponse.ok /\ jsonResponse.value.json = "object"
               THEN Returned(jsonResponse.value)
               ELSE Threw("Invalid response format from AI model"))

Sites == {"processInitialDescription", "processToolSelections",
          "generateSystemDiagram", "generateInitialAnalysis",
          "refineAgentDesign"}

Operation(s, ts) ==
  CASE s = "processInitialDescription" -> ProcessInitialDescription(ts)
    [] s = "processToolSelections" -> ProcessToolSelections(ts)
    [] s = "generateSystemDiagram" -> GenerateSystemDiagram(ts)
    [] s = "generateInitialAnalysis" -> GenerateInitialAnalysis(ts)
    [] s = "refineAgentDesign" -> RefineAgentDesign(ts)

\* Model texts ---------------------------------------------------------------

Payloads == {<<"{", "}">>, <<"{", "m1", "}">>,
             <<"{", "k", "{", "m1", "}", "m2", "}">>}

Tagged(payload) == <<Fence, "json", "nl">> \o payload \o <<"nl", Fence>>
Untagged(payload) == <<Fence, "nl">> \o payload \o <<"nl", Fence>>

ProseBefore == {<<>>, <<"p", "nl">>, <<"p", "{", "p", "}", "p", "nl">>,
                <<"{", "m2", "}", "nl">>, <<"{", "p", "nl">>}
ProseAfter == {<<>>, <<"nl", "p">>, <<"nl", "p", "{", "p", "}">>,
               <<"nl", "{", "m2", "}">>, <<"nl", "p", "}">>}

\* Texts with one well-formed fenced block.
FencedTexts ==
  {before \o block \o after :
     before \in ProseBefore, after \in ProseAfter,
     block \in {Tagged(j) : j \in Payloads} \cup {Untagged(j) : j \in Payloads}}

\* Texts without any brace.
BracelessTexts ==
  {<<>>, <<"p">>, <<"p", "nl", "p">>, <<"s">>, <<"nl", "s", "nl">>,
   Tagged(<<"s">>), Untagged(<<"s">>), <<"p", "nl">> \o Tagged(<<"s">>),
   Tagged(<<"p">>), <<Fence, "json", "nl", Fence>>}

\* Bare and inline payloads.
InlineTexts ==
  Payloads
  \cup {<<"p">> \o j : j \in Payloads}
  \cup {j \o <<"nl", "p">> : j \in Payloads}
  \cup {<<"p", "{", "m1">>, <<"{", "p", "}">>, <<"p", "}", "{">>}

\* Texts whose first candidate payload is not JSON.
MalformedTexts ==
  {Tagged(<<"{", "m1">>), Tagged(<<"p", "{", "m1", "}">>),
   Tagged(<<"{", "k", "{", "m1", "}", "p", "}">>),
   <<"{", "m1", "}", "nl">> \o Tagged(<<"{", "p", "}">>),
   <<"{", "m2", "}", "nl">> \o Tagged(<<"p">>),
   <<"p", "{", "p", "}", "p">>, <<"{", "k", "{", "p", "}", "}">>}

RawTexts == FencedTexts \cup BracelessTexts \cup InlineTexts \cup MalformedTexts

ExtractIdle ==
  /\ xpc = "idle"
  /\ rawText = <<>>
  /\ site = "none"
  /\ extracted = [status |-> "none"]

ExtractInit ==
  /\ xpc = "text"
  /\ rawText \in RawTexts
  /\ site \in Sites
  /\ extracted = [status |-> "none"]

\* The operation returns to its caller.
ExtractReturn ==
  /\ xpc = "text"
  /\ Operation(site, rawText).status = "returned"
  /\ extracted' = Operation(site, rawText)
  /\ xpc' = "extracted"
  /\ UNCHANGED <<rawText, site, extractFrame>>

\* The operation throws to its caller.
ExtractThrow ==
  /\ xpc = "text"
  /\ Operation(site, rawText).status = "threw"
  /\ extracted' = Operation(site, rawText)
  /\ xpc' = "extracted"
  /\ UNCHANGED <<rawText, site, extractFrame>>

ExtractNext == ExtractReturn \/ ExtractThrow

(***************************************************************************)
(*                               BATCH RUNNER                              *)
(* promptTestingService.ts: runBatchTests and the runTestCase pipeline it  *)
(* awaits for each name (read the test case file, call                     *)
(* geminiService.processInitialDescription, save the result).              *)
(***************************************************************************)

MaxCases == 2

CaseNames == {"alpha", "beta"}

\* The metrics runTestCase derives from the result of the model call.
ResultMetrics ==
  {[overallConfidence |-> 80, processingTime |-> 5, agentCount |-> 2,
    toolCount |-> 1, relationshipCount |-> 1],
   [overallConfidence |-> 0, processingTime |-> 3, agentCount |-> 0,
    toolCount |-> 0, relationshipCount |-> 0]}

NoMetrics ==
  [averageConfidence |-> Zero, averageProcessingTime |-> Zero,
   successRate |-> Zero, totalAgents |-> 0, totalTools |-> 0,
   totalRelationships |-> 0]

BatchLocals ==
  [pc |-> "loop", taken |-> 0, stage |-> "none", current |-> NoMetrics,
   results |-> <<>>, metrics |-> NoMetrics, successCount |-> 0,
   events |-> <<>>, batchResult |-> [status |-> "none"]]

BatchIdle ==
  /\ testCaseNames = <<>>
  /\ batch = [BatchLocals EXCEPT !.pc = "idle"]

BatchInit ==
  /\ testCaseNames \in SeqsUpTo(CaseNames, MaxCases)
  /\ batch = BatchLocals

Event(e, k, ok) == [e |-> e, k |-> k, ok |-> ok]

\* The loop may take the next name while every pipeline is in flight.
MayTakeAlways(b) == TRUE

\* for (const testCase of testCaseNames) { await this.runTestCase(...) }:
\* the loop takes the next name only when no pipeline is in flight.
MayTake(b) == b.stage = "none"

\* A failed test case that ends the loop.
CaseFailedStops(b) ==
  [b EXCEPT !.stage = "none", !.taken = Len(testCaseNames),
            !.events = Append(@, Event("end", b.taken, FALSE))]

\* runTestCase returned { success: false, message }: nothing is recorded.
CaseFailed(b) ==
  [b EXCEPT !.stage = "none",
            !.events = Append(@, Event("end", b.taken, FALSE))]

\* The loop takes the next name and runTestCase starts reading its file.
TakeCase ==
  /\ batch.pc = "loop"
  /\ MayTake(batch)
  /\ batch.taken < Len(testCaseNames)
  /\ batch' = [batch EXCEPT !.taken = @ + 1, !.stage = "read",
                            !.events = Append(@, Event("start", batch.taken + 1, TRUE))]
  /\ UNCHANGED <<testCaseNames, batchFrame>>

\* fs.readFile and JSON.parse of the test case file.
ReadTestCase ==
  /\ batch.pc = "loop" /\ batch.stage = "read"
  /\ \E ok \in BOOLEAN :
       batch' = IF ok THEN [batch EXCEPT !.stage = "model"]
                ELSE CaseFailed(batch)
  /\ UNCHANGED <<testCaseNames, batchFrame>>

\* await this.geminiService.processInitialDescription(testCase.description)
CallModel ==
  /\ batch.pc = "loop" /\ batch.stage = "model"
  /\ \/ \E m \in ResultMetrics :
          batch' = [batch EXCEPT
                      !.stage = "save", !.current = m @@ NoMetrics,
                      !.events = Append(@, Event("model", batch.taken, TRUE))]
     \/ batch' = [CaseFailed(batch) EXCEPT
                    !.events = SubSeq(@, 1, Len(@) - 1)
                               \o <<Event("model", batch.taken, FALSE),
                                    Event("end", batch.taken, FALSE)>>]
  /\ UNCHANGED <<testCaseNames, batchFrame>>

\* fs.writeFile of the test result; then the body of the loop: results.push
\* and the sums.
SaveResult ==
  /\ batch.pc = "loop" /\ batch.stage = "save"
  /\ \E ok \in BOOLEAN :
       batch' =
         IF ok
           THEN [batch EXCEPT
                   !.stage = "none",
                   !.results = Append(@, [testCase |-> testCaseNames[batch.taken],
                                          metrics |-> batch.current]),
                   !.metrics =
                      [@ EXCEPT
                         !.averageConfidence =
                            Plus(@, Frac(batch.current.overallConfidence, 1)),
                         !.averageProcessingTime =
                            Plus(@, Frac(batch.current.processingTime, 1)),
                         !.totalAgents = @ + batch.current.agentCount,
                         !.totalTools = @ + batch.current.toolCount,
                         !.totalRelationships =
                            @ + batch.current.relationshipCount],
                   !.successCount = @ + 1,
                   !.events = Append(@, Event("end", batch.taken, TRUE))]
           ELSE CaseFailed(batch)
  /\ UNCHANGED <<testCaseNames, batchFrame>>

\* After the loop: the averages, the batch result and its file.
FinishBatch ==
  /\ batch.pc = "loop" /\ batch.stage = "none"
  /\ batch.taken = Len(testCaseNames)
  /\ LET testCount == Len(batch.results)
         metrics ==
           IF testCount > 0
             THEN [batch.metrics EXCEPT
                     !.averageConfidence = Over(@, testCount),
                     !.averageProcessingTime = Over(@, testCount),
                     !.successRate =
                        Reduce(Frac(batch.successCount * 100, Len(testCaseNames)))]
             ELSE batch.metrics
         batchResult == [status |-> "returned", testCases |-> testCaseNames,
                         metrics |-> metrics,
                         individualResults |-> batch.results]
     IN \E ok \in BOOLEAN :
          batch' = IF ok
                     THEN [batch EXCEPT !.pc = "done", !.metrics = metrics,
                                        !.batchResult = batchResult]
                     ELSE [batch EXCEPT !.pc = "failed", !.metrics = metrics,
                                        !.batchResult = [status |-> "threw"]]
  /\ UNCHANGED <<testCaseNames, batchFrame>>

BatchNext == TakeCase \/ ReadTestCase \/ CallModel \/ SaveResult \/ FinishBatch

(***************************************************************************)
(*                     MODEL CALL, PARSE AND RETRY                         *)
(* One operation from its call to its end: the model call, the extraction  *)
(* and parse of the text, and withRetry around the function that makes the *)
(* call (generateInitialAnalysis, refineAgentDesign and                    *)
(* generateSystemDiagram parse inside that function,                       *)
(* processInitialDescription parses after withRetry returned,              *)
(* processToolSelections calls the model without withRetry).               *)
(***************************************************************************)

\* What the prose of the response says, which JSON.parse quotes in the
\* message of its SyntaxError.
ProseWords == {<<"hello">>, <<"timeout">>, <<"rate", "limit">>}

SyntaxErrorOf(prose) ==
  [kind |-> "Error", hasMessage |-> TRUE,
   text |-> <<"Unexpected", "token">> \o prose \o <<"is", "not", "valid", "JSON">>]

ErrInvalidFormat ==
  [kind |-> "Error", hasMessage |-> TRUE,
   text |-> <<"Invalid", "response", "format", "from", "AI", "model">>]

\* processInitialDescription: text.match is read of a value that is not a
\* string.
TypeErrorMatch ==
  [kind |-> "TypeError", hasMessage |-> TRUE,
   text |-> <<"text.match", "is", "not", "a", "function">>]

\* The operations whose parsing runs inside the function given to withRetry.
ParsesInsideRetry(op) ==
  op \in {"generateInitialAnalysis", "refineAgentDesign",
          "generateSystemDiagram"}

\* The function given to withRetry rethrows the parser's error.
CallbackErrorRethrown(op, parserError) == parserError

\* catch (error) { throw new Error("Invalid response format from AI model") }
\* what the function given to withRetry throws when extraction or parse fails.
CallbackError(op, parserError) == ErrInvalidFormat

\* The texts of the model for this operation.
ParseTexts == BracelessTexts \cup InlineTexts \cup MalformedTexts

IdleParse ==
  [pc |-> "idle", op |-> "none", text |-> <<>>, prose |-> <<>>,
   retries |-> 0, delay |-> 0, modelCalls |-> 0, texts |-> 0,
   status |-> "none", received |-> None]

ParseIdle == parseCall = IdleParse

ParseInit ==
  \E op \in Sites, text \in ParseTexts, prose \in ProseWords :
    parseCall = [IdleParse EXCEPT !.pc = "calling", !.op = op,
                                  !.text = text, !.prose = prose,
                                  !.delay = initialDelay]

\* The catch block of withRetry for the error e of the function.
Caught(call, e) ==
  LET r == call.retries + 1
      d == Catch(r, e)
  IN [call EXCEPT
        !.retries = r,
        !.pc = IF d = "retry" THEN "sleeping" ELSE "failed",
        !.status = IF d = "retry" THEN @ ELSE "threw",
        !.received = IF d = "throw" THEN e
                     ELSE IF d = "typeerror" THEN TypeErrorIncludes
                     ELSE @]

\* await this.model.generateContent(...) throws.
ModelThrows ==
  /\ parseCall.pc = "calling"
  /\ \E e \in Thrown :
       LET called == [parseCall EXCEPT !.modelCalls = @ + 1]
       IN parseCall' =
            IF UsesWithRetry(parseCall.op) THEN Caught(called, e)
            ELSE [called EXCEPT !.pc = "failed", !.status = "threw",
                                !.received = DirectError(parseCall.op, e)]
  /\ UNCHANGED parseFrame

\* await this.model.generateContent(...) returns the text: the operation
\* extracts and parses it.
ModelReturns ==
  /\ parseCall.pc = "calling"
  /\ LET called == [parseCall EXCEPT !.modelCalls = @ + 1, !.texts = @ + 1]
         outcome == Operation(parseCall.op, parseCall.text)
     IN parseCall' =
          IF outcome.status = "returned"
            THEN [called EXCEPT !.pc = "done", !.status = "returned"]
          ELSE IF ParsesInsideRetry(parseCall.op)
            THEN Caught(called,
                        CallbackError(parseCall.op,
                                      SyntaxErrorOf(parseCall.prose)))
          ELSE [called EXCEPT
                  !.pc = "failed", !.status = "threw",
                  !.received =
                     IF parseCall.op = "processToolSelections"
                       THEN DirectError(parseCall.op, ErrInvalidFormat)
                       ELSE TypeErrorMatch]
  /\ UNCHANGED parseFrame

\* The timer of withRetry fires and the function is called again.
ParseWake ==
  /\ parseCall.pc = "sleeping"
  /\ parseCall' = [parseCall EXCEPT !.pc = "calling", !.delay = NextDelay(@)]
  /\ UNCHANGED parseFrame

ParseNext == ModelThrows \/ ModelReturns \/ ParseWake

vars == <<calls, parsed, inputAgents, dpc, result, result2,
         components, passed, sourceText, design, toolSelections, spc, scored,
         actual, expected, epc, accuracy, rawText, site, xpc, extracted,
         testCaseNames, batch, parseCall>>

RetryIdle == calls = [c \in Callers |-> IdleCall]

RetryInit ==
  /\ RetryIdle /\ DiagIdle /\ ScoreIdle /\ EvalIdle /\ ExtractIdle /\ BatchIdle
  /\ ParseIdle

RetryNext == \E c \in Callers : Start(c) \/ AttemptOk(c) \/ AttemptFail(c) \/ Wake(c)

SpecRetry == RetryInit /\ [][RetryNext]_vars

\* One public operation in flight.
OpsNext ==
  \/ \E op \in Ops : OpStart(1, op)
  \/ AttemptOk(1) \/ AttemptFail(1) \/ Wake(1)
  \/ DirectOk(1) \/ DirectFail(1)

SpecOps == RetryInit /\ [][OpsNext]_vars

DiagramInit ==
  /\ DiagInit /\ RetryIdle /\ ScoreIdle /\ EvalIdle /\ ExtractIdle /\ BatchIdle
  /\ ParseIdle

SpecDiagram == DiagramInit /\ [][DiagNext]_vars

ScorerInit ==
  /\ ScoreInit /\ RetryIdle /\ DiagIdle /\ EvalIdle /\ ExtractIdle /\ BatchIdle
  /\ ParseIdle

SpecScore == ScorerInit /\ [][ScoreNext]_vars

EvaluatorInit ==
  /\ EvalInit /\ RetryIdle /\ DiagIdle /\ ScoreIdle /\ ExtractIdle /\ BatchIdle
  /\ ParseIdle

SpecEval == EvaluatorInit /\ [][EvalNext]_vars

ExtractorInit ==
  /\ ExtractInit /\ RetryIdle /\ DiagIdle /\ ScoreIdle /\ EvalIdle /\ BatchIdle
  /\ ParseIdle

SpecExtract == ExtractorInit /\ [][ExtractNext]_vars

BatchRunInit ==
  /\ BatchInit /\ RetryIdle /\ DiagIdle /\ ScoreIdle /\ EvalIdle /\ ExtractIdle
  /\ ParseIdle

SpecBatch == BatchRunInit /\ [][BatchNext]_vars

ParserInit ==
  /\ ParseInit /\ RetryIdle /\ DiagIdle /\ ScoreIdle /\ EvalIdle /\ ExtractIdle
  /\ BatchIdle

SpecParse == ParserInit /\ [][ParseNext]_vars

Last(s) == s[Len(s)]

HasTransientMessage(e) == e.hasMessage /\ IsTransient(e)

\* C1: with maxRetries = 3, a call whose failures so far are all transient
\* and number at most 3 has not failed (the operation is invoked again); when
\* it returns it returns the value of the last invocation after exactly
\* k + 1 invocations; a call that failed on transient errors only made
\* exactly 4 invocations; no call makes more than 4 invocations or sleeps
\* more than 3 times.
C1_RetryCounts ==
  \A c \in Callers :
    LET k == Len(calls[c].fails)
        allTransient == \A i \in 1..k : HasTransientMessage(calls[c].fails[i])
    IN /\ calls[c].invocations <= maxRetries + 1
       /\ Len(calls[c].sleeps) <= maxRetries
       /\ (allTransient /\ k <= maxRetries) => calls[c].pc # "failed"
       /\ calls[c].pc = "done" =>
            /\ allTransient /\ k <= maxRetries
            /\ calls[c].invocations = k + 1
            /\ calls[c].returned = calls[c].lastValue
            /\ calls[c].returned \in Values
       /\ (calls[c].pc = "failed" /\ allTransient) =>
            calls[c].invocations = maxRetries + 1 /\ k = maxRetries + 1

C1_Witness ==
  \E c \in Callers :
    /\ calls[c].pc = "done" /\ Len(calls[c].fails) = 3
    /\ calls[c].invocations = 4

\* C2: an invocation that fails with an error whose message contains neither
\* "rate limit" nor "timeout" is the last one: withRetry has failed with that
\* error, and no delay was slept after it (one sleep per earlier failure).
C2_NonTransientImmediate ==
  \A c \in Callers :
    \A i \in 1..Len(calls[c].fails) :
      (calls[c].fails[i].hasMessage /\ ~IsTransient(calls[c].fails[i])) =>
        /\ i = Len(calls[c].fails)
        /\ calls[c].pc = "failed"
        /\ calls[c].received = calls[c].fails[i]
        /\ calls[c].invocations = i
        /\ Len(calls[c].sleeps) = i - 1

C2_Witness ==
  \E c \in Callers :
    /\ calls[c].pc = "failed"
    /\ calls[c].fails = <<ErrRateLimit, ErrPermission>>
    /\ calls[c].received = ErrPermission

\* C3: whenever withRetry fails, its caller receives exactly the value the
\* last invocation threw (an Error, an object without message, a string).
C3_RethrownUnchanged ==
  \A c \in Callers :
    calls[c].pc = "failed" => calls[c].received = Last(calls[c].fails)

\* C4: in every public operation a first model call that fails with a
\* "rate limit" or "timeout" error is followed by another model call, not by
\* the failure of the operation.
C4_EveryModelCallRetried ==
  \A c \in Callers :
    (Len(calls[c].fails) >= 1 /\ HasTransientMessage(calls[c].fails[1])) =>
      ~(calls[c].pc = "failed" /\ calls[c].invocations = 1)


\* The diagrams the normalization has returned so far.
ReturnedDiagrams ==
  {r.diagram : r \in {x \in {result, result2} : x.status = "returned"}}

EdgesReferToNodes(d) ==
  \A i \in 1..Len(d.edges.a) :
    /\ d.edges.a[i].source \in NodeIds(d.nodes.a)
    /\ d.edges.a[i].target \in NodeIds(d.nodes.a)

\* C5: in every diagram the normalization returns, on the normal path and on
\* the fallback path, each edge's source and each edge's target is the id of
\* a node of the same diagram.
C5_NoDanglingEdges == \A d \in ReturnedDiagrams : EdgesReferToNodes(d)

\* An edge of the model survived and another one was dropped.
C5_Witness ==
  /\ dpc = "normalized" /\ result.path = "normal"
  /\ IsArray(EdgeData(parsed))
  /\ Len(result.diagram.edges.a) >= 1
  /\ Len(result.diagram.edges.a) < Len(EdgeData(parsed).a)

NoModelNodes(json) == json # Null /\ ~UsesModelNodes(json)

\* C7: when the parsed model output yields no nodes and inputAgents is empty
\* the operation fails with the missing-nodes error; it never returns a
\* diagram whose node list is empty.
C7_NoNodesFails ==
  (dpc \in {"normalized", "renormalized"} /\ NoModelNodes(parsed)
     /\ inputAgents = <<>>)
    => /\ result.status = "threw"
       /\ \A d \in ReturnedDiagrams : Len(d.nodes.a) > 0

\* The non-empty arrays held by the given keys of a parsed object.
NonEmptyArrays(json, keys) ==
  {Get(json, keys[k]) : k \in {j \in 1..3 :
      IsArray(Get(json, keys[j])) /\ Len(Get(json, keys[j]).a) > 0}}

\* C8: whenever one of nodes, vertices, agents holds a non-empty array the
\* returned nodes are that array's entries mapped one by one (not the input
\* agents), whatever the other keys hold; likewise the returned edges are
\* the valid mapped entries of the non-empty array under edges, links or
\* relationships.
C8_AnyKeyAccepted ==
  (dpc = "normalized" /\ parsed # Null) =>
    /\ \A arr \in NonEmptyArrays(parsed, NodeKeys) :
         /\ result.path = "normal"
         /\ result.diagram.nodes.a =
              [i \in 1..Len(arr.a) |-> MapNode(arr.a[i], i - 1)]
    /\ \A arr \in NonEmptyArrays(parsed, EdgeKeys) :
         result.diagram.edges.a =
           FilterEdges([i \in 1..Len(arr.a) |-> MapEdge(arr.a[i], i - 1)],
                       NodeIds(result.diagram.nodes.a))

\* C9: systemConfidence.overall of calculateConfidenceScores and
\* confidenceScores.overall of calculateToolSelectionConfidenceScores are at
\* most 95, for every components object, source text and design.
C9_OverallAtMost95 ==
  /\ (spc = "scored" /\ scored.status = "returned")
       => scored.value.systemConfidence.overall <= 95
  /\ spc = "tsScored" => scored.confidenceScores.overall <= 95

\* The uncapped overall score exceeded 95 and 95 was returned.
C9_Witness ==
  /\ spc = "scored" /\ scored.status = "returned"
  /\ OverallConfidence(scored.value, sourceText) > 95
  /\ scored.value.systemConfidence.overall = 95

\* The confidences of the entities of a scored list.
Confidences(list) ==
  IF Truthy(list) THEN {Get(list.a[i], "confidence").n : i \in 1..Len(list.a)}
  ELSE {}

\* C10: for well-formed entities the four system metrics and every
\* per-agent, per-tool and per-relationship confidence returned by
\* calculateConfidenceScores are integers in 0..100.
C10_ScoresInRange ==
  (spc = "scored" /\ scored.status = "returned") =>
    /\ scored.value.systemConfidence.overall \in 0..100
    /\ scored.value.systemConfidence.completeness \in 0..100
    /\ scored.value.systemConfidence.consistency \in 0..100
    /\ scored.value.systemConfidence.clarity \in 0..100
    /\ Confidences(scored.value.agents) \subseteq 0..100
    /\ Confidences(scored.value.tools) \subseteq 0..100
    /\ Confidences(scored.value.relationships) \subseteq 0..100

\* An agent whose uncapped confidence exceeds 100 was scored 100, beside
\* scored tools and relationships.
C10_Witness ==
  /\ spc = "scored" /\ scored.status = "returned"
  /\ Truthy(components.agents)
  /\ \E i \in 1..Len(components.agents.a) :
       /\ AgentConfidenceUncapped(components.agents.a[i], sourceText) > 100
       /\ Get(scored.value.agents.a[i], "confidence") = Num(100)
  /\ Confidences(scored.value.tools) # {}
  /\ Confidences(scored.value.relationships) # {}

\* The four indicators of assessCompleteness, read off the argument.
Indicator(b) == IF b THEN 1 ELSE 0

\* C11: completeness is 50 + 15*[agents non-empty] + 10*[tools non-empty]
\* + 15*[relationships non-empty] + 10*[orchestrationPattern present], an
\* empty tools array counting as no tools.
C11_CompletenessFormula ==
  (spc = "scored" /\ scored.status = "returned") =>
    scored.value.systemConfidence.completeness =
      50 + 15 * Indicator(IsArray(passed.agents) /\ passed.agents.a # <<>>)
         + 10 * Indicator(IsArray(passed.tools) /\ passed.tools.a # <<>>)
         + 15 * Indicator(IsArray(passed.relationships)
                            /\ passed.relationships.a # <<>>)
         + 10 * Indicator(passed.orchestrationPattern \notin {U, Null})

\* One agent, an empty tools array, an empty relationships array and an
\* orchestration pattern were scored with completeness 75.
C11_Witness ==
  /\ spc = "scored" /\ scored.status = "returned"
  /\ IsArray(passed.agents) /\ Len(passed.agents.a) = 1
  /\ passed.tools = Arr(<<>>) /\ passed.relationships = Arr(<<>>)
  /\ passed.orchestrationPattern = Pattern
  /\ scored.value.systemConfidence.completeness = 75

\* C12: calculateConfidenceScores returns a result and raises no error, for
\* every parsed object and every source text.
C12_ScorerNeverFails ==
  spc = "scored" => scored.status = "returned"

\* No entity of the list has a confidence field.
NoConfidenceField(list) ==
  IsArray(list) => \A i \in 1..Len(list.a) : "confidence" \notin DOMAIN list.a[i]

C13_EmptyListCases ==
  epc = "evaluated" =>
    /\ (expected = <<>> /\ actual = <<>>) => accuracy.value = One
    /\ (expected = <<>> /\ actual # <<>>) => accuracy.value = Zero
    /\ (expected # <<>> /\ actual = <<>>) => accuracy.value = Zero

\* Two actual entities were evaluated against no expected entity.
C13_Witness ==
  /\ epc = "evaluated" /\ accuracy.status = "returned"
  /\ expected = <<>> /\ Len(actual) = 2
  /\ accuracy.value = Zero

\* The results fn gave to one call, in order: its failures, then the value
\* it returned if it returned one.
ResultsOf(call) ==
  [i \in 1..Len(call.fails) |-> [ok |-> FALSE, error |-> call.fails[i]]]
  \o (IF call.returned = "none" THEN <<>>
      ELSE <<[ok |-> TRUE, value |-> call.returned]>>)

RECURSIVE Alone(_, _, _, _)
\* withRetry run on its own over a sequence of results of fn: the
\* invocations made, the delays slept and the outcome.
Alone(results, retries, delay, acc) ==
  IF results = <<>> THEN acc
  ELSE LET r == Head(results)
           made == [acc EXCEPT !.invocations = @ + 1]
       IN IF r.ok THEN [made EXCEPT !.outcome = "done", !.returned = r.value]
          ELSE IF retries + 1 > maxRetries
            THEN [made EXCEPT !.outcome = "failed", !.received = r.error]
          ELSE IF ~r.error.hasMessage
            THEN [made EXCEPT !.outcome = "failed",
                              !.received = TypeErrorIncludes]
          ELSE IF ~(Includes(r.error.text, RateLimit)
                      \/ Includes(r.error.text, Timeout))
            THEN [made EXCEPT !.outcome = "failed", !.received = r.error]
          ELSE IF Tail(results) = <<>>
            THEN [made EXCEPT !.outcome = "sleeping"]
          ELSE Alone(Tail(results), retries + 1, Min(2 * delay, maxDelay),
                     [made EXCEPT !.sleeps = Append(@, delay)])

AloneStart ==
  [invocations |-> 0, sleeps |-> <<>>, outcome |-> "calling",
   returned |-> "none", received |-> None]

\* C17: under every interleaving of two withRetry calls, the invocations,
\* the delays slept and the outcome of each finished call are those of the
\* same call run alone over the same results of fn.
C17_CallsIndependent ==
  \A c \in Callers :
    calls[c].pc \in {"done", "failed"} =>
      LET alone == Alone(ResultsOf(calls[c]), 0, initialDelay, AloneStart)
      IN /\ calls[c].invocations = alone.invocations
         /\ calls[c].sleeps = alone.sleeps
         /\ calls[c].pc = alone.outcome
         /\ calls[c].returned = alone.returned
         /\ calls[c].received = alone.received

\* One call failed after four rate-limit errors while another, started
\* beside it, returned after one timeout.
C17_Witness ==
  \E c, d \in Callers :
    /\ c # d
    /\ calls[c].pc = "failed" /\ calls[c].invocations = 4
    /\ calls[c].sleeps = <<1000, 2000, 4000>>
    /\ calls[d].pc = "done" /\ calls[d].invocations = 2
    /\ calls[d].sleeps = <<1000>>

\* C19: the delay slept before the j-th retry is min(1000 * 2^(j-1), 8000)
\* ms, and a sleep lies between a transient failure and the next
\* invocation, never after the last failure.
C19_BackoffDelays ==
  \A c \in Callers :
    LET call == calls[c]
    IN /\ \A j \in 1..Len(call.sleeps) :
            /\ call.sleeps[j] = Min(1000 * 2^(j - 1), 8000)
            /\ call.sleeps[j] <= 8000
            /\ HasTransientMessage(call.fails[j])
            /\ j < call.invocations \/ call.pc = "calling"
       /\ call.pc \in {"done", "failed"}
            => Len(call.sleeps) = call.invocations - 1
       /\ call.pc = "failed" => Len(call.sleeps) = Len(call.fails) - 1
       /\ call.pc = "sleeping"
            => /\ HasTransientMessage(Last(call.fails))
               /\ call.delay = Min(1000 * 2^Len(call.sleeps), 8000)

\* A call slept 1000, 2000 and 4000 ms and then failed for good.
C19_Witness ==
  \E c \in Callers :
    /\ calls[c].pc = "failed"
    /\ calls[c].sleeps = <<1000, 2000, 4000>>
    /\ Len(calls[c].fails) = 4

\* The resolved source and target of an entry of the model's edge list.
ResolvedEnds(edge) ==
  <<Or(Or(Or(Get(edge, "source"), Get(edge, "from")), Get(edge, "source_id")),
       Str("")),
    Or(Or(Or(Get(edge, "target"), Get(edge, "to")), Get(edge, "target_id")),
       Str(""))>>

\* The ends of the entries both of whose ends are among ids, in order.
ValidEnds(edgeList, ids) ==
  LET ends == [i \in 1..Len(edgeList) |-> ResolvedEnds(edgeList[i])]
      Valid(e) == e[1] \in ids /\ e[2] \in ids
  IN SelectSeq(ends, Valid)

\* C20: the edges the normalization returns are exactly the entries of the
\* model's edge list whose resolved source and resolved target are node ids
\* of the result, in input order; an invalid entry removes no valid one.
C20_ValidEdgesKept ==
  (dpc = "normalized" /\ parsed # Null /\ IsArray(EdgeData(parsed))) =>
    /\ result.status = "returned"
    /\ [i \in 1..Len(result.diagram.edges.a) |->
          <<result.diagram.edges.a[i].source, result.diagram.edges.a[i].target>>]
       = ValidEnds(EdgeData(parsed).a, NodeIds(result.diagram.nodes.a))

\* The interior of the fenced block of a text that has exactly two fences:
\* what lies between them, without the tag.
FencedInterior(ts) ==
  LET fences == Positions(ts, Fence)
      first == Least(fences)
      from == IF ts[first + 1] = "json" THEN first + 2 ELSE first + 1
  IN TrimText(SubSeq(ts, from, Greatest(fences) - 1))

\* The text holds exactly one well-formed fenced JSON block.
SingleFencedBlock(ts) ==
  /\ Cardinality(Positions(ts, Fence)) = 2
  /\ JsonParse(FencedInterior(ts)).ok

\* C14: for every text with exactly one well-formed fenced JSON block,
\* processInitialDescription, processToolSelections and
\* generateSystemDiagram parse exactly the interior of the block, whatever
\* prose surrounds it.
C14_FencedBlockExtracted ==
  (/\ xpc = "extracted"
   /\ site \in {"processInitialDescription", "processToolSelections",
                "generateSystemDiagram"}
   /\ SingleFencedBlock(rawText)) =>
    /\ extracted.status = "returned"
    /\ ~extracted.fallback
    /\ extracted.parsed = JsonParse(FencedInterior(rawText)).value

\* C15: for every text with neither { nor [, no extraction site returns a
\* successful result: the caller observes the failure of the extraction.
C15_NoJsonFails ==
  (xpc = "extracted" /\ Positions(rawText, "{") = {}) =>
    extracted.status = "threw"

\* The positions of the events e of test case k.
EventsAt(e, k) ==
  {p \in 1..Len(batch.events) : batch.events[p].e = e /\ batch.events[p].k = k}

\* The test cases whose pipeline ended well, in submission order.
SucceededInOrder ==
  LET Succeeded(k) == \E p \in EventsAt("end", k) : batch.events[p].ok
  IN SelectSeq([k \in 1..Len(testCaseNames) |-> k], Succeeded)

\* C16: in runBatchTests the pipeline of test case k+1, its model call
\* included, starts only after the pipeline of test case k has completed or
\* failed, and individualResults lists the successful cases in the order of
\* testCaseNames.
C16_BatchSequential ==
  /\ \A k \in 1..Len(testCaseNames) :
       /\ \A p \in EventsAt("start", k) :
            k > 1 => \E q \in EventsAt("end", k - 1) : q < p
       /\ \A p \in EventsAt("model", k) :
            /\ \E q \in EventsAt("start", k) : q < p
            /\ \A j \in 1..(k - 1) : \E q \in EventsAt("end", j) : q < p
            /\ \A j \in (k + 1)..Len(testCaseNames) :
                 \A q \in EventsAt("start", j) : q > p
       /\ Cardinality(EventsAt("start", k)) <= 1
  /\ batch.pc = "done" =>
       /\ [j \in 1..Len(batch.batchResult.individualResults) |->
             batch.batchResult.individualResults[j].testCase]
          = [j \in 1..Len(SucceededInOrder) |->
               testCaseNames[SucceededInOrder[j]]]

\* A batch of two different names ran to its end: the first case failed at
\* its model call, the second succeeded.
C16_Witness ==
  /\ batch.pc = "done"
  /\ testCaseNames = <<"beta", "alpha">>
  /\ SucceededInOrder = <<2>>
  /\ \E p \in EventsAt("model", 1) : ~batch.events[p].ok
  /\ Len(batch.batchResult.individualResults) = 1

\* The model's layout is absent, not a string, or blank after trimming.
LayoutIsBlank(json) ==
  IF json = Null THEN TRUE
  ELSE IF ~IsString(Get(json, "layout")) THEN TRUE
  ELSE Trim(Get(json, "layout").s) = ""

\* C21: the layout of every diagram the normalization returns is "dagre"
\* whenever the model's layout is absent, not a string, the empty string or
\* blank after trimming, and the model's layout string otherwise.
C21_LayoutDefaultsToDagre ==
  (dpc = "normalized" /\ result.status = "returned") =>
    result.diagram.layout =
      IF LayoutIsBlank(parsed) THEN Str("dagre") ELSE Get(parsed, "layout")

\* The span sub lies inside the text whole.
IsSpanOf(sub, whole) ==
  \E i \in 1..(Len(whole) + 1) :
    i + Len(sub) - 1 <= Len(whole) /\ SubSeq(whole, i, i + Len(sub) - 1) = sub

\* The sites that parse again after a failed parse.
FallbackSites == {"processToolSelections", "generateSystemDiagram"}

\* C22: when the first candidate payload fails to parse, processToolSelections
\* and generateSystemDiagram parse at most once more, what they parse the
\* second time is a span of the payload they extracted first, and when no
\* parse succeeds the operation fails with the parser's error.
C22_OneFallbackThenFail ==
  (/\ xpc = "extracted" /\ site \in FallbackSites
   /\ Len(extracted.parses) >= 1
   /\ ~JsonParse(extracted.parses[1]).ok) =>
    /\ Len(extracted.parses) <= 2
    /\ Len(extracted.parses) = 2 =>
         IsSpanOf(extracted.parses[2], extracted.parses[1])
    /\ (\A i \in 1..Len(extracted.parses) : ~JsonParse(extracted.parses[i]).ok)
         => /\ extracted.status = "threw"
            /\ extracted.error = "SyntaxError"

\* The text has no fence and is not JSON as a whole, and the span from its
\* first { to its last } is well-formed JSON.
InlinePayload(ts) ==
  /\ Positions(ts, Fence) = {}
  /\ ~JsonParse(ts).ok
  /\ GreedyBraces(ts).found
  /\ JsonParse(GreedyBraces(ts).whole).ok

\* C23: for a text without fence that is not bare JSON, every extraction
\* site parses the span from the first { of the text to its last }, so prose
\* followed by one well-formed object with a nested object is parsed whole.
C23_InlineFirstToLast ==
  (xpc = "extracted" /\ InlinePayload(rawText)) =>
    /\ extracted.status = "returned"
    /\ ~extracted.fallback
    /\ extracted.parsed = JsonParse(GreedyBraces(rawText).whole).value

\* C24: once the model call of an operation has returned its text, the model
\* is not called again for that operation, whatever the text holds and
\* whatever the parser's message quotes: an extraction or parse failure ends
\* the operation at once, so the call that returned the text is the last
\* model call of the operation.
C24_ParseFailureNotRetried ==
  /\ parseCall.texts <= 1
  /\ parseCall.texts = 1 => parseCall.pc \in {"done", "failed"}

\* generateInitialAnalysis received a text that does not parse, whose prose
\* says "timeout", and failed after one model call.
C24_Witness ==
  /\ parseCall.op \in {"generateInitialAnalysis", "refineAgentDesign"}
  /\ parseCall.prose = <<"timeout">>
  /\ ~Operation(parseCall.op, parseCall.text).parsed.json = "object"
  /\ parseCall.pc = "failed" /\ parseCall.received = ErrInvalidFormat
  /\ parseCall.texts = 1 /\ parseCall.modelCalls = 1

\* The scores of one expected entity against every actual entity.
ScoresAgainst(e) == {EntityMatchScore(actual[i], e) : i \in 1..Len(actual)}

\* The maximum of a set of scores as numbers: NaN when a score is NaN.
Maximum(scores) ==
  IF NaN \in scores THEN NaN
  ELSE CHOOSE x \in scores : \A y \in scores : ~Greater(y, x)

RECURSIVE SumOfMaxima(_)
SumOfMaxima(expectedEntities) ==
  IF expectedEntities = <<>> THEN Zero
  ELSE Plus(Maximum(ScoresAgainst(Head(expectedEntities))),
            SumOfMaxima(Tail(expectedEntities)))

\* C25: for non-empty actual and expected, calculateEntityAccuracy is the sum
\* over the expected entities of the maximum match score over all actual
\* entities, divided by the number of expected entities; an actual entity is
\* not consumed, so accuracy([a], [e, e]) = matchScore(a, e).
C25_SumOfBestMatches ==
  (epc = "evaluated" /\ actual # <<>> /\ expected # <<>>) =>
    /\ accuracy.value = Over(SumOfMaxima(expected), Len(expected))
    /\ (Len(actual) = 1 /\ Len(expected) = 2 /\ expected[1] = expected[2])
         => accuracy.value = EntityMatchScore(actual[1], expected[1])

\* A score is a number from 0 to 1.
InUnitRange(x) == x.d > 0 /\ 0 <= x.n /\ x.n <= x.d

\* C26: calculateEntityMatchScore returns a number in [0,1], never NaN, for
\* every pair of entities, and calculateEntityAccuracy returns a number in
\* [0,1] for all lists of entities.
C26_ScoresInUnitRange ==
  epc = "evaluated" =>
    /\ accuracy.status = "returned" /\ InUnitRange(accuracy.value)
    /\ \A i \in 1..Len(actual), j \in 1..Len(expected) :
         InUnitRange(EntityMatchScore(actual[i], expected[j]))

\* The entities whose fields are strings, numbers, arrays of strings and
\* nested objects.
PlainEntities == EvalEntities \ {EntNull}

\* C28: for every non-empty list L of entities calculateEntityAccuracy(L, L)
\* is 1, and calculateEntityMatchScore(e, e) is 1 for every entity e of L.
C28_SelfMatchIsPerfect ==
  (/\ epc = "evaluated" /\ actual = expected /\ actual # <<>>
   /\ \A i \in 1..Len(actual) : actual[i] \in PlainEntities) =>
    /\ accuracy.value = One
    /\ \A i \in 1..Len(actual) : EntityMatchScore(actual[i], actual[i]) = One

\* The orders in which the entities of a list can be written.
Reorderings(list) ==
  {[i \in 1..Len(list) |-> list[f[i]]] :
     f \in {g \in [1..Len(list) -> 1..Len(list)] :
              \A i, j \in 1..Len(list) : g[i] = g[j] => i = j}}

\* C30: for every expected list and every non-empty actual list, appending
\* entities to the actual list never lowers calculateEntityAccuracy, and the
\* result does not depend on the order of the actual entities.
C30_MoreActualNeverLowers ==
  (epc = "evaluated" /\ actual # <<>>) =>
    /\ \A more \in SeqsUpTo(EvalEntities, 1) :
         /\ InUnitRange(EntityAccuracy(actual \o more, expected))
         /\ ~Greater(accuracy.value, EntityAccuracy(actual \o more, expected))
    /\ \A other \in Reorderings(actual) :
         EntityAccuracy(other, expected) = accuracy.value

\* Two different actual entities were scored against an expected entity that
\* the second one matches better than the first.
C30_Witness ==
  /\ epc = "evaluated" /\ Len(actual) = 2 /\ Len(expected) = 1
  /\ Greater(EntityMatchScore(actual[2], expected[1]),
             EntityMatchScore(actual[1], expected[1]))
  /\ Greater(EntityMatchScore(actual[1], expected[1]), Zero)
  /\ accuracy.value = EntityMatchScore(actual[2], expected[1])

\* C27: every confidence value that calculateToolSelectionConfidenceScores
\* returns (overall, each entry of agents, orchestration, toolIntegration)
\* lies in 0..100, for every design with any number of tools and
\* relationships.
C27_ToolSelectionScoresInRange ==
  spc = "tsScored" =>
    /\ scored.confidenceScores.overall \in 0..100
    /\ \A entry \in scored.confidenceScores.agents : entry[2] \in 0..100
    /\ scored.confidenceScores.orchestration \in 0..100
    /\ scored.confidenceScores.toolIntegration \in 0..100

\* C29: when runBatchTests returns, every listed test case was run exactly
\* once whatever cases failed, individualResults holds exactly the cases
\* that succeeded, and successRate is 100 * successes / submitted cases,
\* which is 0 when none succeeded.
C29_FailuresDoNotStopBatch ==
  batch.pc = "done" =>
    /\ \A k \in 1..Len(testCaseNames) :
         /\ Cardinality(EventsAt("start", k)) = 1
         /\ Cardinality(EventsAt("end", k)) = 1
    /\ Len(batch.batchResult.individualResults) = Len(SucceededInOrder)
    /\ \A j \in 1..Len(SucceededInOrder) :
         batch.batchResult.individualResults[j].testCase
           = testCaseNames[SucceededInOrder[j]]
    /\ batch.batchResult.metrics.successRate =
         IF SucceededInOrder = <<>> THEN Zero
         ELSE Reduce(Frac(100 * Len(SucceededInOrder), Len(testCaseNames)))

\* A batch of two names returned after its first case succeeded and its
\* second case failed to read its file.
C29_Witness ==
  /\ batch.pc = "done"
  /\ testCaseNames = <<"alpha", "beta">>
  /\ SucceededInOrder = <<1>>
  /\ EventsAt("model", 2) = {}
  /\ batch.batchResult.metrics.successRate = Frac(50, 1)

====
